---- MODULE Spec2Model ----
(***************************************************************************)
(* Model of the enforcement / recovery engine of pve-traffic-monitor:      *)
(* Monitor.executeAction and the main loop of Monitor.Start (package       *)
(* main), recovery.Manager, models.VMStateManager, the tag and power       *)
(* primitives of pve.Client, and the period arithmetic of                  *)
(* period.Calculator and recovery.calculateRecoveryTime.                   *)
(*                                                                         *)
(* Instants are whole minutes since BaseYear-01-01 00:00 in one fixed      *)
(* location; rate limits are hundredths of MB/s (the %.2f of               *)
(* SetNetworkRateLimit).                                                   *)
(***************************************************************************)
EXTENDS Integers, Sequences, FiniteSets, TLC

\* ------------------------------------------------------------------------
\* time.Time arithmetic (time.Date normalisation, AddDate, Sub().Hours())
\* ------------------------------------------------------------------------

BaseYear == 2024

Years == BaseYear .. (BaseYear + 2)

MinutesPerHour == 60

MinutesPerDay == 1440

\* time.Time{} : the zero instant, for which IsZero() is true
ZeroTime == -1

IsZero(t) == t = ZeroTime

IsLeap(y) == (y % 4 = 0 /\ y % 100 # 0) \/ y % 400 = 0

DaysIn(y, m) ==
    IF m = 2 THEN (IF IsLeap(y) THEN 29 ELSE 28)
    ELSE IF m \in {4, 6, 9, 11} THEN 30 ELSE 31

RECURSIVE DaysBeforeMonth(_, _)
DaysBeforeMonth(y, m) ==
    IF m <= 1 THEN 0 ELSE DaysBeforeMonth(y, m - 1) + DaysIn(y, m - 1)

RECURSIVE DaysBeforeYear(_)
DaysBeforeYear(y) ==
    IF y <= BaseYear THEN 0
    ELSE DaysBeforeYear(y - 1) + (IF IsLeap(y - 1) THEN 366 ELSE 365)

\* time.Date(y, mo, d, h, mi, 0, 0, loc): months outside 1..12 carry into the
\* year, days / hours / minutes outside their range carry linearly.
Date(y, mo, d, h, mi) ==
    LET m0 == mo - 1
        yy == y + (m0 \div 12)
        mm == (m0 % 12) + 1
    IN  (DaysBeforeYear(yy) + DaysBeforeMonth(yy, mm) + d - 1) * MinutesPerDay
        + h * MinutesPerHour + mi

DayNumber(t) == t \div MinutesPerDay

Year(t) ==
    CHOOSE y \in Years :
        /\ DaysBeforeYear(y) <= DayNumber(t)
        /\ DayNumber(t) < DaysBeforeYear(y + 1)

Month(t) ==
    LET y == Year(t)
        n == DayNumber(t) - DaysBeforeYear(y)
    IN  CHOOSE m \in 1 .. 12 :
            /\ DaysBeforeMonth(y, m) <= n
            /\ n < DaysBeforeMonth(y, m) + DaysIn(y, m)

Day(t) ==
    DayNumber(t) - DaysBeforeYear(Year(t)) - DaysBeforeMonth(Year(t), Month(t)) + 1

Hour(t) == (t % MinutesPerDay) \div MinutesPerHour

Minute(t) == t % MinutesPerHour

\* t.AddDate(years, months, days)
AddDate(t, years, months, days) ==
    Date(Year(t) + years, Month(t) + months, Day(t) + days, Hour(t), Minute(t))

\* int(x) of a float quotient a/b, b > 0: truncation toward zero
TruncDiv(a, b) == IF a >= 0 THEN a \div b ELSE -((-a) \div b)

\* int(now.Sub(creation).Hours())
HoursSince(now, creation) == TruncDiv(now - creation, MinutesPerHour)

\* int(now.Sub(creation).Hours() / 24)
DaysSince(now, creation) == TruncDiv(now - creation, MinutesPerDay)

\* ------------------------------------------------------------------------
\* period.Calculator  (c is [periodType, creationTime, useCreationTime])
\* ------------------------------------------------------------------------

NewCalculator(periodType, creationTime, useCreationTime) ==
    [periodType |-> periodType, creationTime |-> creationTime,
     useCreationTime |-> useCreationTime]

getFixedPeriodStart(c, now) ==
    CASE c.periodType = "hour" ->
            Date(Year(now), Month(now), Day(now), Hour(now), 0)
      [] c.periodType = "day" ->
            Date(Year(now), Month(now), Day(now), 0, 0)
      [] c.periodType = "month" ->
            Date(Year(now), Month(now), 1, 0, 0)
      [] OTHER ->
            Date(Year(now), Month(now), Day(now), Hour(now), 0)

getCreationBasedPeriodStart(c, now) ==
    LET creation == c.creationTime IN
    CASE c.periodType = "hour" ->
            creation + HoursSince(now, creation) * MinutesPerHour
      [] c.periodType = "day" ->
            AddDate(creation, 0, 0, DaysSince(now, creation))
      [] c.periodType = "month" ->
            LET creationDay == Day(creation)
                creationHour == Hour(creation)
                creationMinute == Minute(creation)
                diff == (Year(now) - Year(creation)) * 12
                        + (Month(now) - Month(creation))
                monthsSinceCreation ==
                    IF Day(now) < creationDay
                       \/ (Day(now) = creationDay /\ Hour(now) < creationHour)
                    THEN diff - 1 ELSE diff
                periodStart0 == AddDate(creation, 0, monthsSinceCreation, 0)
                periodStart ==
                    IF Month(periodStart0)
                         # Month(AddDate(creation, 0, monthsSinceCreation, 0))
                    THEN Date(Year(periodStart0), Month(periodStart0) + 1, 0,
                              creationHour, creationMinute)
                    ELSE periodStart0
            IN  Date(Year(periodStart), Month(periodStart), creationDay,
                     creationHour, creationMinute)
      [] OTHER -> getFixedPeriodStart(c, now)

GetCurrentPeriodStart(c, now) ==
    IF ~c.useCreationTime \/ IsZero(c.creationTime)
    THEN getFixedPeriodStart(c, now)
    ELSE getCreationBasedPeriodStart(c, now)

GetNextPeriodStart(c, now) ==
    LET currentStart == GetCurrentPeriodStart(c, now) IN
    CASE c.periodType = "hour" -> currentStart + MinutesPerHour
      [] c.periodType = "day" -> AddDate(currentStart, 0, 0, 1)
      [] c.periodType = "month" -> AddDate(currentStart, 0, 1, 0)
      [] OTHER -> currentStart + MinutesPerHour

\* ------------------------------------------------------------------------
\* recovery.calculateRecoveryTime / calculateNextPeriodStart
\* ------------------------------------------------------------------------

calculateNextPeriodStart(period, creationTime, now) ==
    LET creation == creationTime IN
    CASE period = "hour" ->
            creation + (HoursSince(now, creation) + 1) * MinutesPerHour
      [] period = "day" ->
            AddDate(creation, 0, 0, DaysSince(now, creation) + 1)
      [] period = "month" ->
            LET creationDay == Day(creation)
                creationHour == Hour(creation)
                creationMinute == Minute(creation)
                diff == (Year(now) - Year(creation)) * 12
                        + (Month(now) - Month(creation))
                \* both branches of the source increment
                monthsSinceCreation ==
                    IF Day(now) < creationDay
                       \/ (Day(now) = creationDay /\ Hour(now) < creationHour)
                    THEN diff + 1 ELSE diff + 1
                nextPeriod == AddDate(creation, 0, monthsSinceCreation, 0)
            IN  IF Month(nextPeriod)
                     # Month(AddDate(creation, 0, monthsSinceCreation, 0))
                THEN Date(Year(nextPeriod), Month(nextPeriod) + 1, 0,
                          creationHour, creationMinute)
                ELSE Date(Year(nextPeriod), Month(nextPeriod), creationDay,
                          creationHour, creationMinute)
      [] OTHER -> now + MinutesPerHour

calculateRecoveryTime(period, useCreationTime, creationTime, now) ==
    IF useCreationTime /\ ~IsZero(creationTime)
    THEN calculateNextPeriodStart(period, creationTime, now)
    ELSE CASE period = "hour" ->
                Date(Year(now), Month(now), Day(now), Hour(now) + 1, 0)
           [] period = "day" ->
                Date(Year(now), Month(now), Day(now) + 1, 0, 0)
           [] period = "month" ->
                Date(Year(now), Month(now) + 1, 1, 0, 0)
           [] OTHER -> now + MinutesPerHour

\* ------------------------------------------------------------------------
\* Configuration: the fleet and the rule list (models.Config.Rules)
\* ------------------------------------------------------------------------

VMs == {101, 102}

\* GetVMCreationTime of each resource
CreationTime == [v \in VMs |-> IF v = 101 THEN Date(2024, 1, 15, 10, 30)
                                ELSE Date(2024, 3, 9, 23, 0)]

\* the instant the monitor starts
StartTime == Date(2024, 3, 10, 8, 58)

\* models.TagTraffic* : a tag is the tuple of its "-"-separated tokens
TagTrafficShutdown == <<"traffic", "exceeded", "shutdown">>

TagTrafficDisconnect == <<"traffic", "exceeded", "disconnected">>

TagTrafficLimited == <<"traffic", "exceeded", "limited">>

NoTag == <<>>

\* fmt.Sprintf("traffic-limit-%s", safeRuleName)
RuleTag(ruleName) == <<"traffic", "limit", ruleName>>

\* len(tag) >= 8 && tag[:8] == "traffic-"
HasTrafficPrefix(tag) == Len(tag) >= 2 /\ tag[1] = "traffic"

Rule(name, period, useCreationTime, action, forceStop, rateLimitMB, vmids) ==
    [Name |-> name, Enabled |-> TRUE, Period |-> period,
     UseCreationTime |-> useCreationTime, Action |-> action,
     ForceStop |-> forceStop, RateLimitMB |-> rateLimitMB,
     VMIDs |-> vmids, VMTags |-> {}, ExcludeVMIDs |-> {}]

Rules ==
    << Rule("hourly", "hour", FALSE, "shutdown", FALSE, 0, {101}),
       Rule("daily", "day", TRUE, "stop", FALSE, 0, {102}),
       Rule("monthly", "month", TRUE, "disconnect", FALSE, 0, {101}),
       Rule("limit", "hour", FALSE, "rate_limit", FALSE, 500, {101}) >>

\* letters of the tags that rules select resources by, and their lower case
Letters == {"a", "A", "b", "B"}

LowerChar(ch) == IF ch = "A" THEN "a" ELSE IF ch = "B" THEN "b" ELSE ch

\* strings.ToLower of a tag given as the sequence of its letters
ToLower(tag) == [i \in 1 .. Len(tag) |-> LowerChar(tag[i])]

\* vmTagLower == ruleTagLower
tagsEqual_Exact(vmTag, ruleTag) == vmTag = ruleTag

tagsEqual(vmTag, ruleTag) == ToLower(vmTag) = ToLower(ruleTag)

\* pve.VMMatchesRule: deny-list, then id allow-list, then tag allow-list
VMMatchesRule(vm, rule) ==
    IF vm.VMID \in rule.ExcludeVMIDs THEN FALSE
    ELSE IF rule.VMIDs # {} /\ vm.VMID \notin rule.VMIDs THEN FALSE
    ELSE IF rule.VMTags # {}
            /\ ~\E ruleTag \in rule.VMTags :
                   \E vmTag \in vm.Tags : tagsEqual(vmTag, ruleTag)
         THEN FALSE
    ELSE TRUE

\* the rate limit a resource may carry before the monitor touches it
InitialRates == {0, 1000}

\* ------------------------------------------------------------------------
\* State
\* ------------------------------------------------------------------------

VARIABLES
    now,          \* time.Now()
    States,       \* VMStateManager.States : vmid -> VMState
    vmStatus,     \* hypervisor: "running" / "stopped"
    vmRate,       \* hypervisor: rate= of the net device, 0 = none
    vmLinkDown,   \* hypervisor: link_down=1 of the net device
    vmTags,       \* hypervisor: tags of each resource
    actionLogs,   \* entries the last handler run handed to SaveActionLog
    applied,      \* per resource, enforcement effects in force
    rateBefore,   \* per resource, rate limit before the rate-limit in force
    pc,           \* Monitor.Start: "running" / "exited"
    advances,     \* number of clock steps taken
    enforcements, \* number of runs of executeAction that reached the action
    handler,      \* the case of the select loop that ran last
    recovered,    \* the states the last handler run restored and removed
                  \* (vmid -> state), as logged by RecoverVM
    calls         \* what the last handler run asked of the hypervisor and
                  \* of RecordVMState: <<vmid, call, ok>>

vars == <<now, States, vmStatus, vmRate, vmLinkDown, vmTags, actionLogs,
          applied, rateBefore, pc, advances, enforcements, handler,
          recovered, calls>>

MaxAdvances == 2

MaxEnforcements == 2

World ==
    [States |-> States, status |-> vmStatus, rate |-> vmRate,
     link |-> vmLinkDown, tags |-> vmTags, logs |-> << >>,
     applied |-> applied, rateBefore |-> rateBefore, recovered |-> << >>,
     calls |-> {}]

Install(w) ==
    /\ States' = w.States
    /\ vmStatus' = w.status
    /\ vmRate' = w.rate
    /\ vmLinkDown' = w.link
    /\ vmTags' = w.tags
    /\ actionLogs' = w.logs
    /\ applied' = w.applied
    /\ rateBefore' = w.rateBefore
    /\ recovered' = w.recovered
    /\ calls' = w.calls

\* ------------------------------------------------------------------------
\* pve.Client: each call either takes effect or returns an error (ok = FALSE)
\* ------------------------------------------------------------------------

Issue(w, vmid, call, ok) == [w EXCEPT !.calls = @ \cup {<<vmid, call, ok>>}]

\* StopVM / ShutdownVM
StopVM(w, vmid, op, ok) ==
    LET w1 == Issue(w, vmid, op, ok) IN
    IF ~ok THEN w1
    ELSE [w1 EXCEPT !.status[vmid] = "stopped",
                    !.applied[vmid] =
                        IF w.status[vmid] = "running" THEN @ \cup {"stop"} ELSE @]

StartVM(w, vmid, ok) ==
    LET w1 == Issue(w, vmid, "StartVM", ok) IN
    IF ~ok THEN w1
    ELSE [w1 EXCEPT !.status[vmid] = "running",
                    !.applied[vmid] = @ \ {"stop"}]

DisconnectNetwork(w, vmid, ok) ==
    LET w1 == Issue(w, vmid, "DisconnectNetwork", ok) IN
    IF ~ok THEN w1
    ELSE [w1 EXCEPT !.link[vmid] = TRUE,
                    !.applied[vmid] = @ \cup {"disconnect"}]

ConnectNetwork(w, vmid, ok) ==
    LET w1 == Issue(w, vmid, "ConnectNetwork", ok) IN
    IF ~ok THEN w1
    ELSE [w1 EXCEPT !.link[vmid] = FALSE,
                    !.applied[vmid] = @ \ {"disconnect"}]

\* SetNetworkRateLimit called by executeAction (enforce = TRUE) or by
\* RecoverVM (enforce = FALSE)
SetNetworkRateLimit(w, vmid, rateMB, enforce, ok) ==
    LET w1 == Issue(w, vmid, "SetNetworkRateLimit", ok) IN
    IF ~ok THEN w1
    ELSE [w1 EXCEPT !.rate[vmid] = rateMB,
                    !.rateBefore[vmid] =
                        IF enforce /\ "rate_limit" \notin w.applied[vmid]
                        THEN w.rate[vmid] ELSE @,
                    !.applied[vmid] =
                        IF enforce THEN @ \cup {"rate_limit"}
                        ELSE @ \ {"rate_limit"}]

RemoveNetworkRateLimit(w, vmid, ok) ==
    LET w1 == Issue(w, vmid, "RemoveNetworkRateLimit", ok) IN
    IF ~ok THEN w1
    ELSE [w1 EXCEPT !.rate[vmid] = 0,
                    !.applied[vmid] = @ \ {"rate_limit"}]

AddVMTag(w, vmid, tag, ok) ==
    IF ~ok THEN w ELSE [w EXCEPT !.tags[vmid] = @ \cup {tag}]

RemoveVMTag(w, vmid, tag, ok) ==
    IF ~ok THEN w ELSE [w EXCEPT !.tags[vmid] = @ \ {tag}]

\* variant: the rule's old tag is not removed first
AutoTagByTrafficWithRule_KeepOld(w, vmid, over, ruleName, fail) ==
    IF over THEN AddVMTag(w, vmid, RuleTag(ruleName), "AutoAdd" \notin fail)
    ELSE w

AutoTagByTrafficWithRule(w, vmid, over, ruleName, fail) ==
    LET w1 == RemoveVMTag(w, vmid, RuleTag(ruleName), "AutoRemove" \notin fail)
    IN  IF over THEN AddVMTag(w1, vmid, RuleTag(ruleName), "AutoAdd" \notin fail)
        ELSE w1

\* ------------------------------------------------------------------------
\* models.VMStateManager
\* ------------------------------------------------------------------------

RecordState(S, state) ==
    [x \in DOMAIN S \cup {state.VMID} |-> IF x = state.VMID THEN state ELSE S[x]]

RemoveState(S, vmid) == [x \in DOMAIN S \ {vmid} |-> S[x]]

GetAllStates(S) == DOMAIN S

\* variant: a state counts as due from its recovery time on (!now.Before)
GetRecoveryDueStates_NotBefore(S, t) ==
    {v \in DOMAIN S : S[v].NeedsRecovery /\ t >= S[v].RecoveryTime}

GetRecoveryDueStates(S, t) ==
    {v \in DOMAIN S : S[v].NeedsRecovery /\ t > S[v].RecoveryTime}

\* ------------------------------------------------------------------------
\* recovery.Manager.RecordVMState and Monitor.executeAction
\* ------------------------------------------------------------------------

\* returns the world; on a failed status snapshot no state is recorded
RecordVMState(w, vmid, action, period, ruleName, useCT, creationTime, t, fail) ==
    LET ok == "GetVMStatus" \notin fail
        w1 == Issue(w, vmid, "RecordVMState", ok)
        state == [VMID |-> vmid,
                  OriginalStatus |-> w.status[vmid],
                  OriginalRateLimit |-> 0,
                  ActionTaken |-> action,
                  Period |-> period,
                  RuleName |-> ruleName,
                  NeedsRecovery |-> TRUE,
                  RecoveryTime |->
                      calculateRecoveryTime(period, useCT, creationTime, t)]
    IN  IF ~ok THEN w1
        ELSE [w1 EXCEPT !.States = RecordState(@, state)]

actionTagOf(rule) ==
    CASE rule.Action \in {"shutdown", "stop"} -> TagTrafficShutdown
      [] rule.Action = "disconnect" -> TagTrafficDisconnect
      [] rule.Action = "rate_limit" -> TagTrafficLimited
      [] OTHER -> NoTag

ErrorText(op) == <<"error", op>>

\* variant: the marker tag is added whether or not the action succeeded
executeAction_TagAlways(w, vmid, rule, creationTime, t, fail) ==
    LET actionTag == actionTagOf(rule)
        tagsOk == "GetVMTags" \notin fail
        primOk == "Primitive" \notin fail
        tagOk == "AddVMTag" \notin fail
    IN
    IF actionTag # NoTag /\ tagsOk /\ actionTag \in w.tags[vmid]
    THEN w
    ELSE
      LET w1 == RecordVMState(w, vmid, rule.Action, rule.Period, rule.Name,
                              rule.UseCreationTime, creationTime, t, fail)
          op == CASE rule.Action = "shutdown" ->
                        IF rule.ForceStop THEN "StopVM" ELSE "ShutdownVM"
                  [] rule.Action = "stop" -> "StopVM"
                  [] rule.Action = "disconnect" -> "DisconnectNetwork"
                  [] rule.Action = "rate_limit" -> "SetNetworkRateLimit"
                  [] OTHER -> "unknown"
          w2 == CASE rule.Action \in {"shutdown", "stop"} ->
                        StopVM(w1, vmid, op, primOk)
                  [] rule.Action = "disconnect" ->
                        DisconnectNetwork(w1, vmid, primOk)
                  [] rule.Action = "rate_limit" ->
                        SetNetworkRateLimit(w1, vmid, rule.RateLimitMB, TRUE,
                                            primOk)
                  [] OTHER -> w1
          err == IF op = "unknown" THEN TRUE ELSE ~primOk
          w3 == AddVMTag(Issue(w2, vmid, "AddVMTag", tagOk), vmid,
                         actionTag, tagOk)
          actionLog == [VMID |-> vmid, RuleName |-> rule.Name,
                        Action |-> rule.Action,
                        Success |-> ~err,
                        Error |-> IF err THEN ErrorText(op) ELSE <<>>]
      IN  [w3 EXCEPT !.logs = Append(@, actionLog)]

executeAction(w, vmid, rule, creationTime, t, fail) ==
    LET actionTag == actionTagOf(rule)
        tagsOk == "GetVMTags" \notin fail
        primOk == "Primitive" \notin fail
        tagOk == "AddVMTag" \notin fail
    IN
    IF actionTag # NoTag /\ tagsOk /\ actionTag \in w.tags[vmid]
    THEN w
    ELSE
      LET w1 == RecordVMState(w, vmid, rule.Action, rule.Period, rule.Name,
                              rule.UseCreationTime, creationTime, t, fail)
          op == CASE rule.Action = "shutdown" ->
                        IF rule.ForceStop THEN "StopVM" ELSE "ShutdownVM"
                  [] rule.Action = "stop" -> "StopVM"
                  [] rule.Action = "disconnect" -> "DisconnectNetwork"
                  [] rule.Action = "rate_limit" -> "SetNetworkRateLimit"
                  [] OTHER -> "unknown"
          w2 == CASE rule.Action \in {"shutdown", "stop"} ->
                        StopVM(w1, vmid, op, primOk)
                  [] rule.Action = "disconnect" ->
                        DisconnectNetwork(w1, vmid, primOk)
                  [] rule.Action = "rate_limit" ->
                        SetNetworkRateLimit(w1, vmid, rule.RateLimitMB, TRUE,
                                            primOk)
                  [] OTHER -> w1
          err == IF op = "unknown" THEN TRUE ELSE ~primOk
          w3 == IF err THEN w2
                ELSE AddVMTag(Issue(w2, vmid, "AddVMTag", tagOk), vmid,
                              actionTag, tagOk)
          actionLog == [VMID |-> vmid, RuleName |-> rule.Name,
                        Action |-> rule.Action,
                        Success |-> ~err,
                        Error |-> IF err THEN ErrorText(op) ELSE <<>>]
      IN  [w3 EXCEPT !.logs = Append(@, actionLog)]

\* one iteration of the evaluation loop of Monitor.applyRules (step 4)
applyRule(w, vmid, rule, over, creationTime, t, fail) ==
    LET w1 == AutoTagByTrafficWithRule(w, vmid, over, rule.Name, fail)
    IN  IF over THEN executeAction(w1, vmid, rule, creationTime, t, fail)
        ELSE w1

\* ------------------------------------------------------------------------
\* recovery.Manager: RecoverVM, CheckAndRecoverDue, RecoverAll, CleanupAllTags
\* ------------------------------------------------------------------------

\* for _, tag := range tags { if traffic- prefix { RemoveVMTag(vmid, tag) } }
RECURSIVE RemoveTrafficTags(_, _, _, _)
RemoveTrafficTags(w, vmid, todo, ok) ==
    IF todo = {} THEN w
    ELSE LET tag == CHOOSE x \in todo : TRUE
             w1 == IF HasTrafficPrefix(tag) THEN RemoveVMTag(w, vmid, tag, ok)
                   ELSE w
         IN  RemoveTrafficTags(w1, vmid, todo \ {tag}, ok)

\* the tag sweep shared by RecoverVM and CleanupAllTags
StripTags(w, vmid, fail) ==
    LET ok == "GetVMTags" \notin fail
    IN  IF ~ok THEN w
        ELSE RemoveTrafficTags(w, vmid, w.tags[vmid],
                               "RemoveVMTag" \notin fail)

\* the end of RecoverVM: strip the tags, then RemoveState
FinishRecover(w, vmid, fail) ==
    LET w1 == StripTags(w, vmid, fail)
    IN  [w1 EXCEPT !.States = RemoveState(@, vmid),
                   !.recovered = RecordState(@, w.States[vmid])]

\* variant: shutdown/stop states are restarted whatever the original status
RecoverVM_AlwaysStart(w, vmid, fail) ==
    IF vmid \notin DOMAIN w.States THEN w
    ELSE
      LET state == w.States[vmid]
          ok == "Restore" \notin fail
      IN
      CASE state.ActionTaken \in {"shutdown", "stop"} ->
              LET w1 == StartVM(w, vmid, ok)
              IN  IF ~ok THEN w1 ELSE FinishRecover(w1, vmid, fail)
        [] state.ActionTaken = "disconnect" ->
              LET w1 == ConnectNetwork(w, vmid, ok)
              IN  IF ~ok THEN w1 ELSE FinishRecover(w1, vmid, fail)
        [] state.ActionTaken = "rate_limit" ->
              LET w1 == IF state.OriginalRateLimit = 0
                        THEN RemoveNetworkRateLimit(w, vmid, ok)
                        ELSE SetNetworkRateLimit(w, vmid,
                                 state.OriginalRateLimit, FALSE, ok)
              IN  FinishRecover(w1, vmid, fail)
        [] OTHER -> FinishRecover(w, vmid, fail)

RecoverVM(w, vmid, fail) ==
    IF vmid \notin DOMAIN w.States THEN w
    ELSE
      LET state == w.States[vmid]
          ok == "Restore" \notin fail
      IN
      CASE state.ActionTaken \in {"shutdown", "stop"} ->
              IF state.OriginalStatus = "running"
              THEN LET w1 == StartVM(w, vmid, ok)
                   IN  IF ~ok THEN w1 ELSE FinishRecover(w1, vmid, fail)
              ELSE FinishRecover(w, vmid, fail)
        [] state.ActionTaken = "disconnect" ->
              LET w1 == ConnectNetwork(w, vmid, ok)
              IN  IF ~ok THEN w1 ELSE FinishRecover(w1, vmid, fail)
        [] state.ActionTaken = "rate_limit" ->
              LET w1 == IF state.OriginalRateLimit = 0
                        THEN RemoveNetworkRateLimit(w, vmid, ok)
                        ELSE SetNetworkRateLimit(w, vmid,
                                 state.OriginalRateLimit, FALSE, ok)
              IN  FinishRecover(w1, vmid, fail)
        [] OTHER -> FinishRecover(w, vmid, fail)

\* for _, state := range states { RecoverVM(state.VMID) }
RECURSIVE RecoverEach(_, _, _)
RecoverEach(w, todo, failOf) ==
    IF todo = {} THEN w
    ELSE LET v == CHOOSE x \in todo : TRUE
         IN  RecoverEach(RecoverVM(w, v, failOf[v]), todo \ {v}, failOf)

CheckAndRecoverDue(w, t, failOf) ==
    RecoverEach(w, GetRecoveryDueStates(w.States, t), failOf)

RecoverAll(w, failOf) == RecoverEach(w, GetAllStates(w.States), failOf)

RECURSIVE CleanupAllTags(_, _, _)
CleanupAllTags(w, vms, failOf) ==
    IF vms = {} THEN w
    ELSE LET v == CHOOSE x \in vms : TRUE
         IN  CleanupAllTags(StripTags(w, v, failOf[v]), vms \ {v}, failOf)

\* ------------------------------------------------------------------------
\* storage: calculateTraffic and buildTrafficStats
\* ------------------------------------------------------------------------

VARIABLES
    records,      \* []models.TrafficRecord of one window, ordered by time
    stats         \* the models.TrafficStats built from them, or NoStats

trafficVars == <<records, stats>>

NoStats == [Direction |-> "none"]

\* uint64 arithmetic, on words of WordBits bits
WordBits == 16

WordModulus == 2 ^ WordBits

U64Sub(a, b) == (a - b) % WordModulus

U64Add(a, b) == (a + b) % WordModulus

\* variant: a restart of either counter at the first pair counts for both
firstRestart_Either(recs, field) ==
    recs[2].RXBytes < recs[1].RXBytes \/ recs[2].TXBytes < recs[1].TXBytes

\* records[1].RXBytes < records[0].RXBytes, and the same for TXBytes
firstRestart(recs, field) == recs[2][field] < recs[1][field]

\* variant: the segment always starts at 0
initialSegmentStart_Zero(first, restart) == 0

\* variant: the segment always starts at the first record
initialSegmentStart_First(first, restart) == first

\* rxSegmentStart / txSegmentStart before the loop
initialSegmentStart(first, restart) == IF restart THEN 0 ELSE first

\* variant: the first pair is walked like every other pair
skipsFirstPair_Never(i, firstRXRestart, firstTXRestart) == FALSE

\* if i == 1 && (firstRXRestart || firstTXRestart) { continue }
skipsFirstPair(i, firstRXRestart, firstTXRestart) ==
    i = 1 /\ (firstRXRestart \/ firstTXRestart)

\* variant: the traffic before a restart is dropped
segmentTotal_Dropped(previous, segmentStart) == 0

\* previousRX - rxSegmentStart
segmentTotal(previous, segmentStart) == U64Sub(previous, segmentStart)

\* variant: the new segment starts at the first value seen after the restart
segmentStartAfterRestart_Current(current) == current

\* rxSegmentStart = 0 after a restart
segmentStartAfterRestart(current) == 0

\* a - b on uint64 wraps around
Wraps(a, b) == a < b

\* the loop for i := 1; i < len(records); i++ (i is the Go index); acc holds
\* totalRX, totalTX, rxSegmentStart and txSegmentStart, and whether one of
\* the subtractions so far wrapped around
RECURSIVE trafficLoop(_, _, _, _, _)
trafficLoop(recs, i, acc, firstRXRestart, firstTXRestart) ==
    IF i >= Len(recs) THEN acc
    ELSE IF skipsFirstPair(i, firstRXRestart, firstTXRestart)
    THEN trafficLoop(recs, i + 1, acc, firstRXRestart, firstTXRestart)
    ELSE
      LET currentRX == recs[i + 1].RXBytes
          previousRX == recs[i].RXBytes
          currentTX == recs[i + 1].TXBytes
          previousTX == recs[i].TXBytes
          acc1 == IF currentRX < previousRX
                  THEN [acc EXCEPT
                          !.totalRX = U64Add(@, segmentTotal(previousRX,
                                                   acc.rxSegmentStart)),
                          !.rxSegmentStart = segmentStartAfterRestart(currentRX),
                          !.wrapped = @ \/ Wraps(previousRX, acc.rxSegmentStart)]
                  ELSE acc
          acc2 == IF currentTX < previousTX
                  THEN [acc1 EXCEPT
                          !.totalTX = U64Add(@, segmentTotal(previousTX,
                                                   acc1.txSegmentStart)),
                          !.txSegmentStart = segmentStartAfterRestart(currentTX),
                          !.wrapped = @ \/ Wraps(previousTX, acc1.txSegmentStart)]
                  ELSE acc1
      IN  trafficLoop(recs, i + 1, acc2, firstRXRestart, firstTXRestart)

\* the accumulators of calculateTraffic before the loop
beforeLoop(recs) ==
    [totalRX |-> 0, totalTX |-> 0, wrapped |-> FALSE,
     rxSegmentStart |-> initialSegmentStart(recs[1].RXBytes, firstRestart(recs, "RXBytes")),
     txSegmentStart |-> initialSegmentStart(recs[1].TXBytes, firstRestart(recs, "TXBytes"))]

\* the accumulators of calculateTraffic after the loop
afterLoop(recs) == trafficLoop(recs, 1, beforeLoop(recs), firstRestart(recs, "RXBytes"), firstRestart(recs, "TXBytes"))

\* one of the subtractions of calculateTraffic wraps around
subtractionWraps(recs) ==
    /\ Len(recs) >= 2
    /\ \/ afterLoop(recs).wrapped
       \/ Wraps(recs[Len(recs)].RXBytes, afterLoop(recs).rxSegmentStart)
       \/ Wraps(recs[Len(recs)].TXBytes, afterLoop(recs).txSegmentStart)

calculateTraffic(recs) ==
    IF Len(recs) = 0 THEN [RX |-> 0, TX |-> 0]
    ELSE IF Len(recs) = 1 THEN [RX |-> 0, TX |-> 0]
    ELSE
      LET firstRXRestart == firstRestart(recs, "RXBytes")
          firstTXRestart == firstRestart(recs, "TXBytes")
          acc0 == [totalRX |-> 0, totalTX |-> 0, wrapped |-> FALSE,
                   rxSegmentStart |->
                       initialSegmentStart(recs[1].RXBytes, firstRXRestart),
                   txSegmentStart |->
                       initialSegmentStart(recs[1].TXBytes, firstTXRestart)]
          acc == trafficLoop(recs, 1, acc0, firstRXRestart, firstTXRestart)
          lastRecord == recs[Len(recs)]
      IN  [RX |-> U64Add(acc.totalRX,
                         U64Sub(lastRecord.RXBytes, acc.rxSegmentStart)),
           TX |-> U64Add(acc.totalTX,
                         U64Sub(lastRecord.TXBytes, acc.txSegmentStart))]

\* the values of the direction argument
Directions == {"", "both", "upload", "tx", "download", "rx"}

\* buildTrafficStats without the fields it copies from its arguments; TotalGB
\* is TotalBytes divided by BytesPerGB
buildTrafficStats(direction, recs) ==
    LET dir == IF direction = "" THEN "both" ELSE direction
        totals == calculateTraffic(recs)
    IN  IF Len(recs) = 0
        THEN [Direction |-> dir, RXBytes |-> 0, TXBytes |-> 0,
              TotalBytes |-> 0]
        ELSE [Direction |-> dir, RXBytes |-> totals.RX, TXBytes |-> totals.TX,
              TotalBytes |->
                  CASE dir \in {"upload", "tx"} -> totals.TX
                    [] dir \in {"download", "rx"} -> totals.RX
                    [] OTHER -> U64Add(totals.RX, totals.TX)]

TrafficIdle == records = << >> /\ stats = NoStats

\* ------------------------------------------------------------------------
\* period.Calculator in use: GetPeriodRange at successive instants
\* ------------------------------------------------------------------------

VARIABLES
    calc,         \* the *Calculator
    window,       \* the (start, end) GetPeriodRange returned last, or NoWindow
    lastEnd,      \* the end of the window before this one, or ZeroTime
    rollovers     \* number of window ends the clock has been moved to

periodVars == <<calc, window, lastEnd, rollovers>>

NoCalculator == [periodType |-> "none"]

NoWindow == [start |-> ZeroTime, end |-> ZeroTime]

\* GetPeriodRange with time.Now() = t
GetPeriodRange(c, t) ==
    [start |-> GetCurrentPeriodStart(c, t), end |-> GetNextPeriodStart(c, t)]

PeriodIdle ==
    /\ calc = NoCalculator
    /\ window = NoWindow
    /\ lastEnd = ZeroTime
    /\ rollovers = 0

\* ------------------------------------------------------------------------
\* cache.TrafficCache
\* ------------------------------------------------------------------------

VARIABLES
    cache,        \* TrafficCache.cache: key -> *CachedStats or NoEntry
    lastSet,      \* per key, the arguments and instant of the last Set that no
                  \* Clear or Invalidate has followed, or NoEntry
    got           \* the last Get: its arguments and what it returned, or NoGet

cacheVars == <<cache, lastSet, got>>

\* NewTrafficCache(5 * time.Minute), in minutes
TTL == 5

NoEntry == [Stats |-> "none"]

NoGet == [ok |-> FALSE, key |-> << >>]

\* fmt.Sprintf("%d:%s:%s", vmid, period, direction): the three fields, which
\* contain no colon
makeKey(vmid, period, direction) == <<vmid, period, direction>>

\* fmt.Sscanf(key, "%d:", &keyVMID)
keyVMID(key) == key[1]

CacheKeys ==
    {makeKey(101, "hour", "both"), makeKey(101, "month", "both"),
     makeKey(102, "hour", "upload")}

\* cached.PeriodStart.Equal(periodStart)
samePeriod_Always(cached, periodStart) == TRUE

samePeriod(cached, periodStart) == cached.PeriodStart = periodStart

\* time.Since(cached.LastUpdate) > c.ttl
expired_AtTTL(cached, t) == t - cached.LastUpdate >= TTL

expired(cached, t) == t - cached.LastUpdate > TTL

\* TrafficCache.Get at instant t: (stats, ok)
Get(c, key, periodStart, t) ==
    IF c[key] = NoEntry THEN [Stats |-> "none", ok |-> FALSE]
    ELSE IF ~samePeriod(c[key], periodStart) THEN [Stats |-> "none", ok |-> FALSE]
    ELSE IF expired(c[key], t) THEN [Stats |-> "none", ok |-> FALSE]
    ELSE [Stats |-> c[key].Stats, ok |-> TRUE]

\* TrafficCache.Set at instant t
Set(c, key, periodStart, st, t) ==
    [c EXCEPT ![key] = [Stats |-> st, LastUpdate |-> t, PeriodStart |-> periodStart]]

\* TrafficCache.Invalidate
Invalidate(c, vmid) ==
    [key \in DOMAIN c |-> IF keyVMID(key) = vmid THEN NoEntry ELSE c[key]]

\* TrafficCache.Clear
Clear(c) == [key \in DOMAIN c |-> NoEntry]

\* TrafficCache.cleanup at instant t
cleanup(c, t) ==
    [key \in DOMAIN c |->
        IF c[key] # NoEntry /\ expired(c[key], t) THEN NoEntry ELSE c[key]]

CacheIdle ==
    /\ cache = [key \in CacheKeys |-> NoEntry]
    /\ lastSet = [key \in CacheKeys |-> NoEntry]
    /\ got = NoGet

\* ------------------------------------------------------------------------
\* pve.VMMatchesRule applied to a resource and a rule
\* ------------------------------------------------------------------------

VARIABLES
    vm,           \* models.VMInfo: VMID and Tags
    rule,         \* models.Rule: VMIDs, VMTags, ExcludeVMIDs
    matched       \* <<what VMMatchesRule(vm, rule) returned>>, or NotAsked

matchVars == <<vm, rule, matched>>

NotAsked == << >>

NoVM == [VMID |-> 0]

NoRule == [Name |-> ""]

MatchIdle == vm = NoVM /\ rule = NoRule /\ matched = NotAsked

\* ------------------------------------------------------------------------
\* Monitor.applyRules for one resource: what its last run computed and
\* evaluated
\* ------------------------------------------------------------------------

VARIABLES
    subject,      \* VMID of the resource the last applyRules ran for, 0 if none
    computations, \* its calls of calculateTrafficStatsWithCache, in order:
                  \* [key, ok, TotalGB]
    evaluations,  \* its runs of the step 4 loop body that found a stat:
                  \* [rule, TotalGB, tagsBefore, tagsAfter, executed]
    failing,      \* the calls that returned an error during it
    runs          \* number of runs of applyRules so far

rulesVars == <<subject, computations, evaluations, failing, runs>>

RulesIdle ==
    /\ subject = 0
    /\ computations = << >>
    /\ evaluations = << >>
    /\ failing = {}
    /\ runs = 0

\* ------------------------------------------------------------------------
\* Monitor.Start and collectAndProcess as goroutines: the main loop, the
\* worker pool and vmChan
\* ------------------------------------------------------------------------

VARIABLES
    mainPc,       \* where the main goroutine is: "select", in a tick ("send",
                  \* "wait"), on the sigChan path, or "exited"
    fetched,      \* vms of the tick in progress or last finished
    sent,         \* how many of them the send loop has put into vmChan
    vmChan,       \* the buffered channel
    closed,       \* close(vmChan) was called
    workerPc,     \* per worker goroutine: "none", "recv", a step of
                  \* processVM, or "exited"
    workerVM,     \* the resource the worker is processing, 0 if none
    processed,    \* per resource, calls of processVM in this tick
    outcome,      \* per resource, how processVM ended in this tick
    faulted,      \* resources for which a call failed in this tick
    faults,       \* number of failed calls so far
    collections,  \* ticks started
    completed,    \* ticks returned
    sweeps,       \* recovery sweeps run
    signalled,    \* a signal is waiting in sigChan
    handled,      \* case <-sigChan was taken
    shutdownDone, \* steps of the sigChan path that have returned
    lateStarts    \* ticks and sweeps started after the signal was handled

poolVars == <<mainPc, fetched, sent, vmChan, closed, workerPc, workerVM,
              processed, outcome, faulted, faults, collections, completed,
              sweeps, signalled, handled, shutdownDone, lateStarts>>

\* the resources GetAllVMsWithFilter lists
Fleet == <<101, 102, 103>>

FleetSet == {Fleet[i] : i \in DOMAIN Fleet}

\* const maxWorkers = models.MaxWorkers, scaled down below the fleet size
maxWorkers == 2

\* goroutines started for a list of n resources
workerCount_PerVM(n) == n

workerCount(n) == maxWorkers

Workers == 1 .. Len(Fleet)

PoolIdle ==
    /\ mainPc = "select"
    /\ fetched = << >>
    /\ sent = 0
    /\ vmChan = << >>
    /\ closed = FALSE
    /\ workerPc = [w \in Workers |-> "none"]
    /\ workerVM = [w \in Workers |-> 0]
    /\ processed = [v \in FleetSet |-> 0]
    /\ outcome = [v \in FleetSet |-> "none"]
    /\ faulted = {}
    /\ faults = 0
    /\ collections = 0
    /\ completed = 0
    /\ sweeps = 0
    /\ signalled = FALSE
    /\ handled = FALSE
    /\ shutdownDone = << >>
    /\ lateStarts = 0

\* ------------------------------------------------------------------------
\* config.Loader
\* ------------------------------------------------------------------------

VARIABLES
    file,          \* the configuration file: what json.Unmarshal reads
    modTime,       \* its modification time
    config,        \* Loader.config, NoConfig before the first load
    lastModified,  \* Loader.lastModified
    notifications, \* configurations handed to the reload callbacks, in order
    loader,        \* "new" before NewLoader, then "ready", or "failed" when
                   \* NewLoader returned an error
    reloadResult,  \* what the last Reload returned: "ok", "skipped", "error"
    configBefore,  \* Loader.config before the last Reload
    notifiedBefore \* number of notifications before the last Reload

loaderVars == <<file, modTime, config, lastModified, notifications, loader,
                reloadResult, configBefore, notifiedBefore>>

NoConfig == [Rules |-> << >>, baseOk |-> FALSE]

LoaderIdle ==
    /\ file = NoConfig
    /\ modTime = 0
    /\ config = NoConfig
    /\ lastModified = ZeroTime
    /\ notifications = << >>
    /\ loader = "new"
    /\ reloadResult = "none"
    /\ configBefore = NoConfig
    /\ notifiedBefore = 0

\* ------------------------------------------------------------------------
\* storage: the persisted VM states, across process restarts
\* ------------------------------------------------------------------------

VARIABLES
    store,        \* per resource, what SaveVMState wrote last, or NotStored
    restarts      \* number of times the process was started again

restartVars == <<store, restarts>>

NotStored == [NeedsRecovery |-> FALSE]

RestartIdle ==
    /\ store = [v \in VMs |-> NotStored]
    /\ restarts = 0

\* ------------------------------------------------------------------------
\* The structures the workers of one tick share: TrafficCache.cache under
\* TrafficCache.mu, and VMStateManager.States
\* ------------------------------------------------------------------------

VARIABLES
    step,         \* per worker: where it is in processVM for its resource
    overQuota,    \* per worker: whether its resource is over a rule's limit
    rlocked,      \* the workers holding TrafficCache.mu.RLock
    wlocked,      \* the workers holding TrafficCache.mu.Lock
    inStates,     \* the workers inside the map write m.States[vmid] = state
    tableFate     \* "intact", or what the runtime made of overlapping map
                  \* writes: "fatal" (concurrent map writes), "corrupt"

lockVars == <<step, overQuota, rlocked, wlocked, inStates, tableFate>>

Members == 1 .. maxWorkers

LockIdle ==
    /\ step = [w \in Members |-> "done"]
    /\ overQuota = [w \in Members |-> FALSE]
    /\ rlocked = {}
    /\ wlocked = {}
    /\ inStates = {}
    /\ tableFate = "intact"

\* ------------------------------------------------------------------------
\* Monitor.calculateTrafficStatsWithCache and the enforcement it leads to
\* ------------------------------------------------------------------------

VARIABLES
    served,       \* what calculateTrafficStatsWithCache returned last: the rule
                  \* group, the stat, whether it came from the cache, or NoServed
    pending,      \* the enforcement in force (marker tag and VMState), or None
    undone        \* the enforcement the sweep has undone last, or None

statsVars == <<served, pending, undone>>

NoServed == [hit |-> FALSE, at |-> ZeroTime]

None == [RecoveryTime |-> ZeroTime]

StatsIdle ==
    /\ served = NoServed
    /\ pending = None
    /\ undone = None

\* ------------------------------------------------------------------------
\* storage.AggregateTrafficByPeriod applied to the records of a window
\* ------------------------------------------------------------------------

VARIABLES
    aggregated    \* the []AggregatedPoint returned for the records, once asked

historyVars == <<aggregated>>

NotAggregated == [done |-> FALSE, result |-> << >>]

HistoryIdle == aggregated = NotAggregated

\* ------------------------------------------------------------------------
\* Loader.Reload, notifyCallbacks and Monitor.onConfigReload
\* ------------------------------------------------------------------------

VARIABLES
    loaded,       \* Loader.config.PVE
    pveClient,    \* Monitor.pveClient: its settings and whether Login succeeded
    inflight,     \* the goroutines of notifyCallbacks that have not run yet
    reloads,      \* reloads that replaced the configuration
    lastCallback  \* the last run of onConfigReload, or NoCallback

reloadVars == <<loaded, pveClient, inflight, reloads, lastCallback>>

\* models.PVEConfig values of the configuration file
PVESettings ==
    [Host : {"pve1", "pve2"}, Port : {"8006", "8007"},
     APITokenID : {"root@pam!monitor"}, APITokenSecret : {"s1", "s2"}]

\* the settings NewMonitor logged in with
FirstSettings ==
    [Host |-> "pve1", Port |-> "8006", APITokenID |-> "root@pam!monitor",
     APITokenSecret |-> "s1"]

NoCallback == [n |-> 0]

ReloadIdle ==
    /\ loaded = FirstSettings
    /\ pveClient = [settings |-> FirstSettings, loggedIn |-> TRUE]
    /\ inflight = {}
    /\ reloads = 0
    /\ lastCallback = NoCallback

\* the state added last
finalVars == <<lockVars, statsVars, historyVars, reloadVars>>

FinalIdle == LockIdle /\ StatsIdle /\ HistoryIdle /\ ReloadIdle

\* the state added after the cache
laterVars == <<matchVars, rulesVars, poolVars, loaderVars, restartVars,
               finalVars>>

LaterIdle ==
    MatchIdle /\ RulesIdle /\ PoolIdle /\ LoaderIdle /\ RestartIdle
    /\ FinalIdle

\* everything outside the enforcement engine
auxVars == <<trafficVars, periodVars, cacheVars, laterVars>>

AuxIdle == TrafficIdle /\ PeriodIdle /\ CacheIdle /\ LaterIdle

\* ------------------------------------------------------------------------
\* Monitor.Start: the select loop
\* ------------------------------------------------------------------------

EvalFailSites == {"AutoRemove", "AutoAdd", "GetVMTags", "GetVMStatus",
                  "Primitive", "AddVMTag"}

RecoverFailSites == {"Restore", "GetVMTags", "RemoveVMTag"}

CleanupFailSites == {"GetVMTags", "RemoveVMTag"}

\* at most MaxFailures calls fail during one handler run
MaxFailures == 1

Bounded(points) == {F \in SUBSET points : Cardinality(F) <= MaxFailures}

FailOf(F) == [v \in VMs |-> {p[2] : p \in {q \in F : q[1] = v}}]

ShutdownFailPoints ==
    {<<"list">>}
    \cup {<<"cleanup", v, site>> : v \in VMs, site \in CleanupFailSites}
    \cup {<<"recover", v, site>> : v \in VMs, site \in RecoverFailSites}

CallNames == {"StopVM", "ShutdownVM", "StartVM", "DisconnectNetwork",
              "ConnectNetwork", "SetNetworkRateLimit",
              "RemoveNetworkRateLimit", "AddVMTag", "RecordVMState"}

TypeOK ==
    /\ now \in Nat
    /\ DOMAIN States \subseteq VMs
    /\ vmStatus \in [VMs -> {"running", "stopped"}]
    /\ vmRate \in [VMs -> Nat]
    /\ vmLinkDown \in [VMs -> BOOLEAN]
    /\ \A v \in VMs : IsFiniteSet(vmTags[v])
    /\ Len(actionLogs) <= 1
    /\ applied \in [VMs -> SUBSET {"stop", "disconnect", "rate_limit"}]
    /\ pc \in {"running", "exited"}
    /\ advances \in 0 .. MaxAdvances
    /\ enforcements \in 0 .. MaxEnforcements
    /\ handler \in {"start", "tick", "sweep", "signal", "clock"}
    /\ DOMAIN recovered \subseteq VMs
    /\ calls \subseteq VMs \X CallNames \X BOOLEAN

Init ==
    /\ now = StartTime
    /\ States = << >>
    /\ vmStatus \in [VMs -> {"running", "stopped"}]
    /\ vmStatus[102] = "running"
    /\ vmRate \in [VMs -> InitialRates]
    /\ vmRate[102] = 0
    /\ vmLinkDown = [v \in VMs |-> FALSE]
    /\ vmTags = [v \in VMs |-> {}]
    /\ actionLogs = << >>
    /\ applied = [v \in VMs |-> {}]
    /\ rateBefore = vmRate
    /\ pc = "running"
    /\ advances = 0
    /\ enforcements = 0
    /\ handler = "start"
    /\ recovered = << >>
    /\ calls = {}
    /\ AuxIdle

\* case <-ticker.C -> collectAndProcess -> processVM -> applyRules, with the
\* statistics available for one resource and one matched rule (every other
\* iteration of step 4 takes the `continue` of a missing statsMap entry):
\* the traffic figure (over the limit or not), the creation time handed down
\* by applyRules and the failing calls are inputs
EvaluateRule(vmid, i, over, creationTime, fail) ==
    /\ pc = "running"
    /\ enforcements < MaxEnforcements
    /\ Rules[i].Enabled
    /\ VMMatchesRule([VMID |-> vmid, Tags |-> vmTags[vmid]], Rules[i])
    /\ Install(applyRule(World, vmid, Rules[i], over, creationTime, now, fail))
    /\ enforcements' = enforcements + Len(actionLogs')
    /\ handler' = "tick"
    /\ UNCHANGED <<now, pc, advances>>
    /\ UNCHANGED auxVars

\* case <-recoveryTicker.C
Sweep(failOf) ==
    /\ pc = "running"
    /\ Install(CheckAndRecoverDue(World, now, failOf))
    /\ handler' = "sweep"
    /\ UNCHANGED <<now, pc, advances, enforcements>>
    /\ UNCHANGED auxVars

\* case <-sigChan
Shutdown(listOk, cleanFailOf, failOf) ==
    /\ pc = "running"
    /\ LET w1 == IF listOk THEN CleanupAllTags(World, VMs, cleanFailOf)
                 ELSE World
       IN  Install(RecoverAll(w1, failOf))
    /\ pc' = "exited"
    /\ handler' = "signal"
    /\ UNCHANGED <<now, advances, enforcements>>
    /\ UNCHANGED auxVars

ShutdownWith(F) ==
    Shutdown(<<"list">> \notin F,
             FailOf({<<p[2], p[3]>> : p \in {q \in F : q[1] = "cleanup"}}),
             FailOf({<<p[2], p[3]>> : p \in {q \in F : q[1] = "recover"}}))

\* time passes: one minute, or up to the recovery time of a recorded state
Advance(t) ==
    /\ pc = "running"
    /\ advances < MaxAdvances
    /\ t > now
    /\ \/ t = now + 1
       \/ \E v \in DOMAIN States : t = States[v].RecoveryTime
    /\ now' = t
    /\ advances' = advances + 1
    /\ actionLogs' = << >>
    /\ recovered' = << >>
    /\ calls' = {}
    /\ handler' = "clock"
    /\ UNCHANGED <<States, vmStatus, vmRate, vmLinkDown, vmTags,
                   applied, rateBefore, pc, enforcements>>
    /\ UNCHANGED auxVars

Next ==
    \/ \E vmid \in VMs, i \in DOMAIN Rules, over \in BOOLEAN,
          fail \in Bounded(EvalFailSites) :
          \E creationTime \in {ZeroTime, CreationTime[vmid]} :
              EvaluateRule(vmid, i, over, creationTime, fail)
    \/ \E F \in Bounded(VMs \X RecoverFailSites) : Sweep(FailOf(F))
    \/ \E F \in Bounded(ShutdownFailPoints) : ShutdownWith(F)
    \/ \E t \in {now + 1} \cup {States[v].RecoveryTime : v \in DOMAIN States} :
          Advance(t)

Spec == Init /\ [][Next]_vars

\* ------------------------------------------------------------------------
\* calculateTraffic / buildTrafficStats applied to the sample sequences of a
\* window
\* ------------------------------------------------------------------------

MaxSamples == 4

CounterValues == {0, 1, 2}

TrafficRecords == [RXBytes : CounterValues, TXBytes : CounterValues]

SampleSequences == UNION {[1 .. n -> TrafficRecords] : n \in 0 .. MaxSamples}

\* records of the cases worked in the comment after calculateTraffic and of
\* a restart between the first two records
Counters(rx, tx) == [i \in 1 .. Len(rx) |-> [RXBytes |-> rx[i], TXBytes |-> tx[i]]]

WorkedExamples ==
    {Counters(<<0, 100, 200>>, <<0, 50, 120>>),
     Counters(<<0, 100, 200, 300, 50, 150>>, <<0, 50, 120, 180, 30, 100>>),
     Counters(<<300, 50, 150>>, <<0, 10, 20>>)}

\* the enforcement engine before its first tick, at instant t
EngineIdleAt(t) ==
    /\ now = t
    /\ States = << >>
    /\ vmStatus = [v \in VMs |-> "running"]
    /\ vmRate = [v \in VMs |-> 0]
    /\ vmLinkDown = [v \in VMs |-> FALSE]
    /\ vmTags = [v \in VMs |-> {}]
    /\ actionLogs = << >>
    /\ applied = [v \in VMs |-> {}]
    /\ rateBefore = vmRate
    /\ pc = "running"
    /\ advances = 0
    /\ enforcements = 0
    /\ handler = "start"
    /\ recovered = << >>
    /\ calls = {}

EngineIdle == EngineIdleAt(StartTime)

TrafficInit ==
    /\ EngineIdle
    /\ PeriodIdle
    /\ CacheIdle
    /\ LaterIdle
    /\ records \in SampleSequences \cup WorkedExamples
    /\ stats = NoStats

\* GetTrafficStats: buildTrafficStats over the records of the window
BuildTrafficStats(direction) ==
    /\ stats = NoStats
    /\ stats' = buildTrafficStats(direction, records)
    /\ UNCHANGED <<records, vars, periodVars, cacheVars, laterVars>>

TrafficNext == \E direction \in Directions : BuildTrafficStats(direction)

TrafficSpec == TrafficInit /\ [][TrafficNext]_trafficVars

\* ------------------------------------------------------------------------
\* period.Calculator applied at the instants of a clock that moves on to the
\* end of each window
\* ------------------------------------------------------------------------

PeriodTypes == {"hour", "day", "month"}

\* creation times of the resources: mid-month, the 31st, the 30th late in the
\* evening, or unknown
CreationTimes ==
    {Date(2024, 1, 15, 10, 30), Date(2025, 1, 31, 10, 30),
     Date(2024, 11, 30, 23, 45), ZeroTime}

\* instants at which a window is asked for (none before a creation time)
Instants ==
    {Date(2025, 2, 10, 12, 0), Date(2025, 2, 28, 23, 59),
     Date(2025, 3, 5, 8, 58), Date(2025, 3, 15, 10, 10),
     Date(2025, 3, 31, 10, 30), Date(2025, 5, 1, 0, 0)}

MaxRollovers == 2

\* the enforcement engine's variables other than the clock
engineRest ==
    <<States, vmStatus, vmRate, vmLinkDown, vmTags, actionLogs, applied,
      rateBefore, pc, advances, enforcements, handler, recovered, calls>>

PeriodInit ==
    /\ \E t \in Instants : EngineIdleAt(t)
    /\ TrafficIdle
    /\ CacheIdle
    /\ LaterIdle
    /\ calc \in {NewCalculator(p, c, u) :
                    p \in PeriodTypes, c \in CreationTimes, u \in BOOLEAN}
    /\ window = NoWindow
    /\ lastEnd = ZeroTime
    /\ rollovers = 0

\* calc.GetPeriodRange() at the current instant
AskPeriodRange ==
    /\ window = NoWindow
    /\ window' = GetPeriodRange(calc, now)
    /\ UNCHANGED <<calc, lastEnd, rollovers, now>>
    /\ UNCHANGED <<engineRest, trafficVars, cacheVars, laterVars>>

\* the clock reaches the end of the window
Rollover ==
    /\ window # NoWindow
    /\ rollovers < MaxRollovers
    /\ window.end > now
    /\ now' = window.end
    /\ lastEnd' = window.end
    /\ window' = NoWindow
    /\ rollovers' = rollovers + 1
    /\ UNCHANGED <<calc, engineRest, trafficVars, cacheVars, laterVars>>

PeriodNext == AskPeriodRange \/ Rollover

PeriodSpec == PeriodInit /\ [][PeriodNext]_<<now, periodVars>>

\* ------------------------------------------------------------------------
\* cache.TrafficCache used by calculateTrafficStatsWithCache and cleared by
\* the API handlers, while time passes
\* ------------------------------------------------------------------------

\* the stat sets that get cached
StatValues == {"statsA", "statsB"}

\* starts of the current window and of the window after the rollover
WindowStarts == {Date(2024, 3, 1, 0, 0), Date(2024, 4, 1, 0, 0)}

MaxTicks == 6

CacheInit ==
    /\ EngineIdle
    /\ TrafficIdle
    /\ PeriodIdle
    /\ CacheIdle
    /\ LaterIdle

cacheRest == <<engineRest, trafficVars, periodVars, laterVars>>

\* m.trafficCache.Get(vmid, period, direction, startTime)
CacheGet(key, periodStart) ==
    /\ got' = [key |-> key, periodStart |-> periodStart,
               Stats |-> Get(cache, key, periodStart, now).Stats,
               ok |-> Get(cache, key, periodStart, now).ok]
    /\ UNCHANGED <<cache, lastSet, now, cacheRest>>

\* m.trafficCache.Set(vmid, period, direction, startTime, stats)
CacheSet(key, periodStart, st) ==
    /\ cache' = Set(cache, key, periodStart, st, now)
    /\ lastSet' = Set(lastSet, key, periodStart, st, now)
    /\ got' = NoGet
    /\ UNCHANGED <<now, cacheRest>>

CacheInvalidate(vmid) ==
    /\ cache # Invalidate(cache, vmid)
    /\ cache' = Invalidate(cache, vmid)
    /\ lastSet' = Invalidate(lastSet, vmid)
    /\ got' = NoGet
    /\ UNCHANGED <<now, cacheRest>>

CacheClear ==
    /\ cache # Clear(cache)
    /\ cache' = Clear(cache)
    /\ lastSet' = Clear(lastSet)
    /\ got' = NoGet
    /\ UNCHANGED <<now, cacheRest>>

\* cleanupLoop: case of ticker.C
CacheCleanup ==
    /\ cache # cleanup(cache, now)
    /\ cache' = cleanup(cache, now)
    /\ got' = NoGet
    /\ UNCHANGED <<lastSet, now, cacheRest>>

\* a minute passes
CacheTick ==
    /\ now < StartTime + MaxTicks
    /\ now' = now + 1
    /\ got' = NoGet
    /\ UNCHANGED <<cache, lastSet, cacheRest>>

CacheNext ==
    \/ \E key \in CacheKeys, periodStart \in WindowStarts :
           CacheGet(key, periodStart)
    \/ \E key \in CacheKeys, periodStart \in WindowStarts, st \in StatValues :
           CacheSet(key, periodStart, st)
    \/ \E vmid \in VMs : CacheInvalidate(vmid)
    \/ CacheClear
    \/ CacheCleanup
    \/ CacheTick

CacheSpec == CacheInit /\ [][CacheNext]_<<now, cacheVars>>

\* ------------------------------------------------------------------------
\* pve.VMMatchesRule applied to the resources and rules of a configuration
\* ------------------------------------------------------------------------

\* tags of resources and of rules' tag allow-lists
TagPool == {<<"a">>, <<"A">>, <<"b">>, <<"a", "B">>}

MatchInit ==
    /\ EngineIdle
    /\ TrafficIdle
    /\ PeriodIdle
    /\ CacheIdle
    /\ RulesIdle
    /\ PoolIdle
    /\ LoaderIdle
    /\ RestartIdle
    /\ FinalIdle
    /\ vm \in [VMID : VMs, Tags : SUBSET TagPool]
    /\ rule \in [VMIDs : SUBSET VMs, VMTags : SUBSET TagPool,
                  ExcludeVMIDs : SUBSET VMs]
    /\ matched = NotAsked

\* m.vmMatchesRule(vm, rule)
Match ==
    /\ matched = NotAsked
    /\ matched' = <<VMMatchesRule(vm, rule)>>
    /\ UNCHANGED <<vm, rule, vars, trafficVars, periodVars, cacheVars,
                   rulesVars, poolVars, loaderVars, restartVars, finalVars>>

MatchNext == Match

MatchSpec == MatchInit /\ [][MatchNext]_matchVars

\* ------------------------------------------------------------------------
\* Monitor.applyRules: matching, one stat per (period, direction, anchoring)
\* group, then the evaluation of every matched rule
\* ------------------------------------------------------------------------

\* a rule with its limit and direction; limits and totals are in tenths of GB
LimitRule(name, period, direction, useCT, action, limitGB, enabled) ==
    [Name |-> name, Enabled |-> enabled, Period |-> period,
     TrafficDirection |-> direction, UseCreationTime |-> useCT,
     Action |-> action, ForceStop |-> FALSE, RateLimitMB |-> 500,
     LimitGB |-> limitGB, VMIDs |-> {}, VMTags |-> {}, ExcludeVMIDs |-> {}]

LimitGBs == [capA |-> 100, capB |-> 99, up |-> 100, off |-> 100]

\* cfg.Rules: two rules of one group (direction "" and "both"), a rule of
\* another direction, and a disabled rule of the first group
GroupRules ==
    << LimitRule("capA", "hour", "", FALSE, "rate_limit", LimitGBs.capA, TRUE),
       LimitRule("capB", "hour", "both", FALSE, "disconnect", LimitGBs.capB, TRUE),
       LimitRule("up", "hour", "upload", FALSE, "shutdown", LimitGBs.up, TRUE),
       LimitRule("off", "hour", "both", FALSE, "stop", LimitGBs.off, FALSE) >>

\* stats.TotalGB of a computed stat
Totals == {99, 100, 101}

\* what a call of calculateTrafficStatsWithCache returns
Outcomes == {[ok |-> FALSE, TotalGB |-> 0]}
            \cup {[ok |-> TRUE, TotalGB |-> g] : g \in Totals}

\* direction := "both" unless rule.TrafficDirection is set
effectiveDirection(r) ==
    IF r.TrafficDirection # "" THEN r.TrafficDirection ELSE "both"

StatsKey(r) ==
    [Period |-> r.Period, Direction |-> effectiveDirection(r),
     UseCreationTime |-> r.UseCreationTime]

\* step 1: the enabled rules the resource matches, in configuration order
matchedRules(v, rules) ==
    SelectSeq(rules, LAMBDA r : r.Enabled /\ VMMatchesRule(v, r))

\* stats.TotalGB > rule.LimitGB
overLimit_AtLimit(totalGB, limitGB) == totalGB >= limitGB

overLimit(totalGB, limitGB) == totalGB > limitGB

\* step 3: statsMap and the calls made, outcomes[n] being what the n-th call
\* returns
RECURSIVE computeStats(_, _, _, _, _)
computeStats(rules, i, statsMap, log, outcomes) ==
    IF i > Len(rules) THEN [statsMap |-> statsMap, log |-> log]
    ELSE
      LET key == StatsKey(rules[i])
          out == outcomes[Len(log) + 1]
          log1 == Append(log, [key |-> key, ok |-> out.ok,
                               TotalGB |-> out.TotalGB])
      IN  IF key \in DOMAIN statsMap
          THEN computeStats(rules, i + 1, statsMap, log, outcomes)
          ELSE IF ~out.ok
          THEN computeStats(rules, i + 1, statsMap, log1, outcomes)
          ELSE computeStats(rules, i + 1,
                            [k \in DOMAIN statsMap \cup {key} |->
                                IF k = key THEN [TotalGB |-> out.TotalGB]
                                ELSE statsMap[k]],
                            log1, outcomes)

\* what one iteration of step 4 does for rule r with the stat total: the tags
\* before and after AutoTagByTrafficWithRule, and whether executeAction is
\* called
evaluation(w, vmid, r, total, fail) ==
    LET over == overLimit(total, r.LimitGB)
        w1 == AutoTagByTrafficWithRule(w, vmid, over, r.Name, fail)
    IN  [rule |-> r.Name, TotalGB |-> total, tagsBefore |-> w.tags[vmid],
         tagsAfter |-> w1.tags[vmid], executed |-> over]

\* step 4: every matched rule against the stat of its group; a rule whose
\* group has no stat is skipped
RECURSIVE evaluateRules(_, _, _, _, _, _, _, _, _)
evaluateRules(w, vmid, rules, i, statsMap, evals, creationTime, t, fail) ==
    IF i > Len(rules) THEN [w |-> w, evals |-> evals]
    ELSE IF StatsKey(rules[i]) \notin DOMAIN statsMap
    THEN evaluateRules(w, vmid, rules, i + 1, statsMap, evals, creationTime,
                       t, fail)
    ELSE evaluateRules(
             applyRule(w, vmid, rules[i],
                       overLimit(statsMap[StatsKey(rules[i])].TotalGB,
                                 rules[i].LimitGB),
                       creationTime, t, fail),
             vmid, rules, i + 1, statsMap,
             Append(evals,
                    evaluation(w, vmid, rules[i],
                               statsMap[StatsKey(rules[i])].TotalGB, fail)),
             creationTime, t, fail)

\* the creation time handed to the evaluation: fetched when a computed group
\* is anchored on it
creationTimeFor(vmid, log) ==
    IF \E j \in 1 .. Len(log) : log[j].key.UseCreationTime
    THEN CreationTime[vmid] ELSE ZeroTime

\* what applyRules leaves: the world, the calls of step 3 and the evaluations
\* of step 4
applyResult(done, log) == [w |-> done.w, log |-> log, evals |-> done.evals]

\* step 4 on the result of step 3
applyComputed(w, vmid, matchedSeq, computed, t, fail) ==
    applyResult(evaluateRules(w, vmid, matchedSeq, 1, computed.statsMap,
                              << >>, creationTimeFor(vmid, computed.log), t,
                              fail),
                computed.log)

\* steps 3 and 4 on the matched rules
applyMatched(w, vmid, matchedSeq, outcomes, t, fail) ==
    applyComputed(w, vmid, matchedSeq,
                  computeStats(matchedSeq, 1, << >>, << >>, outcomes), t, fail)

\* Monitor.applyRules
applyRules(w, vmid, rules, outcomes, t, fail) ==
    applyMatched(w, vmid,
                 matchedRules([VMID |-> vmid, Tags |-> w.tags[vmid]], rules),
                 outcomes, t, fail)

MaxRuns == 2

\* at most one call per enabled rule
MaxCalls == Cardinality({i \in DOMAIN GroupRules : GroupRules[i].Enabled})

RulesInit ==
    /\ EngineIdle
    /\ TrafficIdle
    /\ PeriodIdle
    /\ CacheIdle
    /\ MatchIdle
    /\ RulesIdle
    /\ PoolIdle
    /\ LoaderIdle
    /\ RestartIdle
    /\ FinalIdle

\* processVM -> applyRules(vm) for one resource of a tick
ApplyRules(vmid, outcomes, fail) ==
    /\ runs < MaxRuns
    /\ runs' = runs + 1
    /\ \E res \in {applyRules(World, vmid, GroupRules, outcomes, now, fail)} :
           /\ Install(res.w)
           /\ computations' = res.log
           /\ evaluations' = res.evals
    /\ subject' = vmid
    /\ failing' = fail
    /\ enforcements' = enforcements + Len(actionLogs')
    /\ handler' = "tick"
    /\ UNCHANGED <<now, pc, advances>>
    /\ UNCHANGED <<trafficVars, periodVars, cacheVars, matchVars, poolVars,
                   loaderVars, restartVars, finalVars>>

RulesNext ==
    \E vmid \in VMs, outcomes \in [1 .. MaxCalls -> Outcomes],
       fail \in Bounded(EvalFailSites) :
        ApplyRules(vmid, outcomes, fail)

RulesSpec == RulesInit /\ [][RulesNext]_<<vars, rulesVars>>

\* ------------------------------------------------------------------------
\* Monitor.Start and collectAndProcess: the main goroutine and the workers,
\* one step of one goroutine at a time
\* ------------------------------------------------------------------------

MaxCollections == 2

MaxSweeps == 1

MaxFaults == 2

\* the steps of processVM that call out: GetVMStatus, SaveTrafficRecord,
\* applyRules
ProcessSteps == <<"status", "save", "rules">>

Processing == {ProcessSteps[i] : i \in DOMAIN ProcessSteps}

\* what a worker does after processVM returned an error
afterError_Exit == "exited"

afterError == "recv"

\* wg.Wait()
waitDone_Immediately(pcs) == TRUE

waitDone(pcs) == \A w \in DOMAIN pcs : pcs[w] \in {"none", "exited"}

\* the sigChan case: CleanupAllTags, RecoverAll, storage.Close, return
shutdownOrder_CloseFirst == <<"cleanup", "close", "recoverAll">>

shutdownOrder == <<"cleanup", "recoverAll", "close">>

ShutdownSteps == {"cleanup", "recoverAll", "close"}

PoolInit ==
    /\ EngineIdle
    /\ TrafficIdle
    /\ PeriodIdle
    /\ CacheIdle
    /\ MatchIdle
    /\ RulesIdle
    /\ PoolIdle
    /\ LoaderIdle
    /\ RestartIdle
    /\ FinalIdle

poolRest == <<vars, trafficVars, periodVars, cacheVars, matchVars, rulesVars,
              loaderVars, restartVars, finalVars>>

shutdownVars == <<signalled, handled, shutdownDone, lateStarts>>

tickVars == <<fetched, sent, vmChan, closed, workerPc, workerVM, processed,
              outcome, faulted>>

\* case <-ticker.C (and the run before the loop): collectAndProcess lists the
\* resources, makes vmChan and starts the workers
StartTick ==
    /\ mainPc = "select"
    /\ collections < MaxCollections
    /\ collections' = collections + 1
    /\ fetched' = Fleet
    /\ sent' = 0
    /\ vmChan' = << >>
    /\ closed' = FALSE
    /\ workerPc' = [w \in Workers |->
                      IF w <= workerCount(Len(Fleet)) THEN "recv" ELSE "none"]
    /\ workerVM' = [w \in Workers |-> 0]
    /\ processed' = [v \in FleetSet |-> 0]
    /\ outcome' = [v \in FleetSet |-> "none"]
    /\ faulted' = {}
    /\ mainPc' = "send"
    /\ lateStarts' = IF handled THEN lateStarts + 1 ELSE lateStarts
    /\ UNCHANGED <<faults, completed, sweeps, signalled, handled,
                   shutdownDone, poolRest>>

\* collectAndProcess returns the error of GetAllVMsWithFilter
ListFails ==
    /\ mainPc = "select"
    /\ collections < MaxCollections
    /\ faults < MaxFaults
    /\ faults' = faults + 1
    /\ collections' = collections + 1
    /\ completed' = completed + 1
    /\ fetched' = << >>
    /\ lateStarts' = IF handled THEN lateStarts + 1 ELSE lateStarts
    /\ UNCHANGED <<mainPc, sent, vmChan, closed, workerPc, workerVM,
                   processed, outcome, faulted, sweeps, signalled, handled,
                   shutdownDone, poolRest>>

\* vmChan <- vm
Send ==
    /\ mainPc = "send"
    /\ sent < Len(fetched)
    /\ vmChan' = Append(vmChan, fetched[sent + 1])
    /\ sent' = sent + 1
    /\ UNCHANGED <<mainPc, fetched, closed, workerPc, workerVM, processed,
                   outcome, faulted, faults, collections, completed, sweeps,
                   shutdownVars, poolRest>>

\* close(vmChan)
CloseChan ==
    /\ mainPc = "send"
    /\ sent = Len(fetched)
    /\ closed' = TRUE
    /\ mainPc' = "wait"
    /\ UNCHANGED <<fetched, sent, vmChan, workerPc, workerVM, processed,
                   outcome, faulted, faults, collections, completed, sweeps,
                   shutdownVars, poolRest>>

\* wg.Wait() returns and collectAndProcess with it
Wait ==
    /\ mainPc = "wait"
    /\ waitDone(workerPc)
    /\ mainPc' = "select"
    /\ completed' = completed + 1
    /\ UNCHANGED <<tickVars, faults, collections, sweeps, shutdownVars,
                   poolRest>>

\* for vm := range vmChan: a value is received
Receive(w) ==
    /\ workerPc[w] = "recv"
    /\ vmChan # << >>
    /\ workerVM' = [workerVM EXCEPT ![w] = Head(vmChan)]
    /\ vmChan' = Tail(vmChan)
    /\ workerPc' = [workerPc EXCEPT ![w] = ProcessSteps[1]]
    /\ processed' = [processed EXCEPT ![Head(vmChan)] = @ + 1]
    /\ UNCHANGED <<mainPc, fetched, sent, closed, outcome, faulted, faults,
                   collections, completed, sweeps, shutdownVars, poolRest>>

\* for vm := range vmChan: the channel is closed and empty; wg.Done()
WorkerExit(w) ==
    /\ workerPc[w] = "recv"
    /\ vmChan = << >>
    /\ closed
    /\ workerPc' = [workerPc EXCEPT ![w] = "exited"]
    /\ UNCHANGED <<mainPc, fetched, sent, vmChan, closed, workerVM,
                   processed, outcome, faulted, faults, collections,
                   completed, sweeps, shutdownVars, poolRest>>

\* one call of processVM returns without error
StepOk(w) ==
    /\ workerPc[w] \in Processing
    /\ LET last == workerPc[w] = ProcessSteps[Len(ProcessSteps)]
           i == CHOOSE j \in DOMAIN ProcessSteps : ProcessSteps[j] = workerPc[w]
       IN  /\ workerPc' = [workerPc EXCEPT
                              ![w] = IF last THEN "recv" ELSE ProcessSteps[i + 1]]
           /\ outcome' = IF last THEN [outcome EXCEPT ![workerVM[w]] = "done"]
                         ELSE outcome
           /\ workerVM' = IF last THEN [workerVM EXCEPT ![w] = 0] ELSE workerVM
    /\ UNCHANGED <<mainPc, fetched, sent, vmChan, closed, processed, faulted,
                   faults, collections, completed, sweeps, shutdownVars,
                   poolRest>>

\* the calls of processVM whose error is logged and not returned
swallows_Save(stepName) == stepName \in {"save", "rules"}

swallows(stepName) == stepName = "rules"

\* the step of processVM after the given one, "recv" after the last
stepAfter(stepName) == IF stepName = ProcessSteps[Len(ProcessSteps)] THEN "recv" ELSE ProcessSteps[(CHOOSE j \in DOMAIN ProcessSteps : ProcessSteps[j] = stepName) + 1]

\* one call of processVM returns an error: GetVMStatus and SaveTrafficRecord
\* make processVM return it, applyRules only logs it
StepFails(w) ==
    /\ workerPc[w] \in Processing
    /\ faults < MaxFaults
    /\ faults' = faults + 1
    /\ faulted' = faulted \cup {workerVM[w]}
    /\ workerPc' = [workerPc EXCEPT
                       ![w] = IF swallows(workerPc[w]) THEN stepAfter(workerPc[w])
                              ELSE afterError]
    /\ outcome' = [outcome EXCEPT
                     ![workerVM[w]] = IF ~swallows(workerPc[w]) THEN "failed"
                                      ELSE IF stepAfter(workerPc[w]) = "recv"
                                           THEN "done" ELSE @]
    /\ workerVM' = IF swallows(workerPc[w]) /\ stepAfter(workerPc[w]) # "recv"
                   THEN workerVM ELSE [workerVM EXCEPT ![w] = 0]
    /\ UNCHANGED <<mainPc, fetched, sent, vmChan, closed, processed,
                   collections, completed, sweeps, shutdownVars, poolRest>>

\* case <-recoveryTicker.C: the main goroutine calls CheckAndRecoverDue
RecoverySweep ==
    /\ mainPc = "select"
    /\ sweeps < MaxSweeps
    /\ sweeps' = sweeps + 1
    /\ mainPc' = "sweep"
    /\ lateStarts' = IF handled THEN lateStarts + 1 ELSE lateStarts
    /\ UNCHANGED <<tickVars, faults, collections, completed,
                   signalled, handled, shutdownDone, poolRest>>

\* CheckAndRecoverDue returns (its error is only logged) and the loop selects
\* again
SweepReturns ==
    /\ mainPc = "sweep"
    /\ mainPc' = "select"
    /\ UNCHANGED <<tickVars, faults, collections, completed, sweeps,
                   shutdownVars, poolRest>>

\* SIGINT or SIGTERM is delivered to sigChan
Signal ==
    /\ ~signalled
    /\ ~handled
    /\ signalled' = TRUE
    /\ UNCHANGED <<mainPc, tickVars, faults, collections, completed, sweeps,
                   handled, shutdownDone, lateStarts, poolRest>>

\* case <-sigChan
HandleSignal ==
    /\ mainPc = "select"
    /\ signalled
    /\ signalled' = FALSE
    /\ handled' = TRUE
    /\ mainPc' = shutdownOrder[1]
    /\ UNCHANGED <<tickVars, faults, collections, completed, sweeps,
                   shutdownDone, lateStarts, poolRest>>

\* the next call of the sigChan case returns (its errors are only logged)
ShutdownStep ==
    /\ mainPc \in ShutdownSteps
    /\ shutdownDone' = Append(shutdownDone, mainPc)
    /\ LET i == CHOOSE j \in DOMAIN shutdownOrder : shutdownOrder[j] = mainPc
       IN  mainPc' = IF i = Len(shutdownOrder) THEN "exited"
                     ELSE shutdownOrder[i + 1]
    /\ UNCHANGED <<tickVars, faults, collections, completed, sweeps,
                   signalled, handled, lateStarts, poolRest>>

PoolNext ==
    \/ StartTick
    \/ ListFails
    \/ Send
    \/ CloseChan
    \/ Wait
    \/ \E w \in Workers : Receive(w)
    \/ \E w \in Workers : WorkerExit(w)
    \/ \E w \in Workers : StepOk(w)
    \/ \E w \in Workers : StepFails(w)
    \/ RecoverySweep
    \/ SweepReturns
    \/ Signal
    \/ HandleSignal
    \/ ShutdownStep

PoolSpec == PoolInit /\ [][PoolNext]_poolVars

\* ------------------------------------------------------------------------
\* config.Loader: NewLoader, Reload and validateConfig while the file is
\* edited
\* ------------------------------------------------------------------------

\* "limit_gb" of a rule in the file: absent, or a number
LimitFields ==
    {[present |-> FALSE, value |-> 0]}
    \cup {[present |-> TRUE, value |-> g] : g \in {-1, 0, 10}}

\* a rule as written in the file
FileRules ==
    [Name : {"r"}, Period : {"hour", "month", "week"}, limit_gb : LimitFields,
     Action : {"shutdown", "rate_limit", "pause"}, RateLimitMB : {0, 5},
     TrafficDirection : {"", "sideways"}]

GoodRule ==
    [Name |-> "good", Period |-> "day",
     limit_gb |-> [present |-> TRUE, value |-> 10], Action |-> "stop",
     RateLimitMB |-> 0, TrafficDirection |-> "both"]

\* contents of the file: the rules, and whether the PVE, monitor and storage
\* sections are valid
FileContents ==
    {[Rules |-> rs, baseOk |-> b] :
        rs \in {<<r>> : r \in FileRules} \cup {<<GoodRule, r>> : r \in FileRules},
        b \in BOOLEAN}

\* json.Unmarshal of a rule: an absent number is 0
UnmarshalRule(r) ==
    [Name |-> r.Name, Period |-> r.Period,
     LimitGB |-> IF r.limit_gb.present THEN r.limit_gb.value ELSE 0,
     Action |-> r.Action, RateLimitMB |-> r.RateLimitMB,
     TrafficDirection |-> r.TrafficDirection]

Unmarshal(f) ==
    [Rules |-> [i \in DOMAIN f.Rules |-> UnmarshalRule(f.Rules[i])],
     baseOk |-> f.baseOk]

\* variant: only a negative limit is refused
limitRejected_Negative(limitGB) == limitGB < 0

\* rule.LimitGB <= 0
limitRejected(limitGB) == limitGB <= 0

validActions == {"shutdown", "stop", "disconnect", "rate_limit"}

validDirections == {"both", "upload", "download", "tx", "rx"}

\* the checks validateConfig makes on one rule
validateRule(r) ==
    IF r.Name = "" THEN "name"
    ELSE IF r.Period \notin {"hour", "day", "month"} THEN "period"
    ELSE IF limitRejected(r.LimitGB) THEN "limit"
    ELSE IF r.Action \notin validActions THEN "action"
    ELSE IF r.Action = "rate_limit" /\ r.RateLimitMB <= 0 THEN "rate"
    ELSE IF r.TrafficDirection # "" /\ r.TrafficDirection \notin validDirections
         THEN "direction"
    ELSE "ok"

\* the loop of validateConfig over the rules: "ok" or the first error
RECURSIVE validateRules(_, _)
validateRules(rules, i) ==
    IF i > Len(rules) THEN "ok"
    ELSE IF validateRule(rules[i]) # "ok" THEN validateRule(rules[i])
    ELSE validateRules(rules, i + 1)

validateConfig(c) == IF ~c.baseOk THEN "base" ELSE validateRules(c.Rules, 1)

MaxEdits == 2

LoaderInit ==
    /\ EngineIdle
    /\ TrafficIdle
    /\ PeriodIdle
    /\ CacheIdle
    /\ MatchIdle
    /\ RulesIdle
    /\ PoolIdle
    /\ RestartIdle
    /\ FinalIdle
    /\ file \in FileContents
    /\ modTime = 0
    /\ config = NoConfig
    /\ lastModified = ZeroTime
    /\ notifications = << >>
    /\ loader = "new"
    /\ reloadResult = "none"
    /\ configBefore = NoConfig
    /\ notifiedBefore = 0

loaderRest == <<vars, trafficVars, periodVars, cacheVars, matchVars,
                rulesVars, poolVars, restartVars, finalVars>>

\* the file is rewritten
EditFile(f) ==
    /\ loader = "ready"
    /\ modTime < MaxEdits
    /\ f # file
    /\ file' = f
    /\ modTime' = modTime + 1
    /\ reloadResult' = "none"
    /\ UNCHANGED <<config, lastModified, notifications, loader, configBefore,
                   notifiedBefore, loaderRest>>

\* Loader.Reload, called by NewLoader, the watcher or the auto-reload ticker
Reload ==
    /\ loader # "failed"
    /\ configBefore' = config
    /\ notifiedBefore' = Len(notifications)
    /\ IF ~IsZero(lastModified) /\ ~(modTime > lastModified)
       THEN /\ reloadResult' = "skipped"
            /\ UNCHANGED <<config, lastModified, notifications, loader>>
       ELSE LET newConfig == Unmarshal(file)
            IN  IF validateConfig(newConfig) # "ok"
                THEN /\ reloadResult' = "error"
                     /\ loader' = IF loader = "new" THEN "failed" ELSE loader
                     /\ UNCHANGED <<config, lastModified, notifications>>
                ELSE /\ reloadResult' = "ok"
                     /\ config' = newConfig
                     /\ lastModified' = modTime
                     \* no callback is registered before NewLoader returns
                     /\ notifications' = IF loader = "new" THEN notifications
                                         ELSE Append(notifications, newConfig)
                     /\ loader' = "ready"
    /\ UNCHANGED <<file, modTime, loaderRest>>

LoaderNext ==
    \/ \E f \in FileContents : EditFile(f)
    \/ Reload

LoaderSpec == LoaderInit /\ [][LoaderNext]_loaderVars

\* ------------------------------------------------------------------------
\* The monitor stopped and started again: RecordVMState and RecoverVM write
\* to the storage, NewManager and LoadStatesFromStorage run at each start
\* ------------------------------------------------------------------------

MaxStarts == 1

\* recovery.NewManager: models.NewVMStateManager()
NewVMStateManager == << >>

\* Manager.LoadStatesFromStorage: returns nil and records nothing
LoadStatesFromStorage(S, st) == S

RestartInit ==
    /\ EngineIdle
    /\ TrafficIdle
    /\ PeriodIdle
    /\ CacheIdle
    /\ MatchIdle
    /\ RulesIdle
    /\ PoolIdle
    /\ LoaderIdle
    /\ FinalIdle
    /\ store = [v \in VMs |-> NotStored]
    /\ restarts = 0

restartRest == <<trafficVars, periodVars, cacheVars, matchVars, rulesVars,
                 poolVars, loaderVars, finalVars>>

\* a tick that finds the resource over the limit of a matching rule: the
\* state RecordVMState recorded is handed to SaveVMState, which may fail
Enforce(vmid, i, creationTime, saveOk) ==
    /\ pc = "running"
    /\ enforcements < MaxEnforcements
    /\ Rules[i].Enabled
    /\ VMMatchesRule([VMID |-> vmid, Tags |-> vmTags[vmid]], Rules[i])
    /\ Install(applyRule(World, vmid, Rules[i], TRUE, creationTime, now, {}))
    /\ enforcements' = enforcements + Len(actionLogs')
    /\ handler' = "tick"
    /\ store' = IF saveOk /\ <<vmid, "RecordVMState", TRUE>> \in calls'
                THEN [store EXCEPT ![vmid] = States'[vmid]]
                ELSE store
    /\ UNCHANGED <<now, pc, advances, restarts, restartRest>>

\* case <-recoveryTicker.C; RecoverVM saves needs_recovery = false for each
\* state it removed
RecoverySweepDue ==
    /\ pc = "running"
    /\ Install(CheckAndRecoverDue(World, now, [v \in VMs |-> {}]))
    /\ handler' = "sweep"
    /\ store' = [v \in VMs |-> IF v \in DOMAIN recovered' THEN NotStored
                                ELSE store[v]]
    /\ UNCHANGED <<now, pc, advances, enforcements, restarts, restartRest>>

\* the process stops without running the sigChan case
Killed ==
    /\ pc = "running"
    /\ restarts < MaxStarts
    /\ pc' = "exited"
    /\ handler' = "killed"
    /\ actionLogs' = << >>
    /\ recovered' = << >>
    /\ calls' = {}
    /\ UNCHANGED <<now, States, vmStatus, vmRate, vmLinkDown, vmTags, applied,
                   rateBefore, advances, enforcements, restartVars,
                   restartRest>>

\* main: NewManager, then LoadStatesFromStorage
Started ==
    /\ pc = "exited"
    /\ pc' = "running"
    /\ restarts' = restarts + 1
    /\ States' = LoadStatesFromStorage(NewVMStateManager, store)
    /\ handler' = "start"
    /\ UNCHANGED <<now, vmStatus, vmRate, vmLinkDown, vmTags, actionLogs,
                   applied, rateBefore, advances, enforcements, recovered,
                   calls, store, restartRest>>

\* time passes, whether the process runs or not: one minute, or up to the
\* recovery time of a persisted state
Pass(t) ==
    /\ advances < MaxAdvances
    /\ t > now
    /\ \/ t = now + 1
       \/ \E v \in VMs : store[v].NeedsRecovery /\ t = store[v].RecoveryTime
    /\ now' = t
    /\ advances' = advances + 1
    /\ actionLogs' = << >>
    /\ recovered' = << >>
    /\ calls' = {}
    /\ handler' = "clock"
    /\ UNCHANGED <<States, vmStatus, vmRate, vmLinkDown, vmTags, applied,
                   rateBefore, pc, enforcements, restartVars, restartRest>>

StoredRecoveryTimes ==
    {store[v].RecoveryTime : v \in {x \in VMs : store[x].NeedsRecovery}}

RestartNext ==
    \/ \E vmid \in VMs, i \in DOMAIN Rules, saveOk \in BOOLEAN :
          \E creationTime \in {ZeroTime, CreationTime[vmid]} :
              Enforce(vmid, i, creationTime, saveOk)
    \/ RecoverySweepDue
    \/ Killed
    \/ Started
    \/ \E t \in {now + 1} \cup StoredRecoveryTimes : Pass(t)

RestartSpec == RestartInit /\ [][RestartNext]_<<vars, restartVars>>

\* ------------------------------------------------------------------------
\* The workers of one tick on the shared structures: each worker runs
\* calculateTrafficStatsWithCache (Get, then Set after a miss) and, for a
\* resource over the limit, executeAction -> RecordVMState -> RecordState
\* ------------------------------------------------------------------------

earlierRest == <<vars, trafficVars, periodVars, cacheVars, matchVars,
                 rulesVars, poolVars, loaderVars, restartVars>>

EarlierIdle ==
    /\ EngineIdle
    /\ TrafficIdle
    /\ PeriodIdle
    /\ CacheIdle
    /\ MatchIdle
    /\ RulesIdle
    /\ PoolIdle
    /\ LoaderIdle
    /\ RestartIdle

lockRest == <<earlierRest, statsVars, historyVars, reloadVars>>

LockInit ==
    /\ EarlierIdle
    /\ StatsIdle
    /\ HistoryIdle
    /\ ReloadIdle
    /\ step = [w \in Members |-> "get"]
    /\ overQuota \in [Members -> BOOLEAN]
    /\ rlocked = {}
    /\ wlocked = {}
    /\ inStates = {}
    /\ tableFate = "intact"

\* what overlapping writes of a Go map can come to
RaceOutcomes == {"intact", "fatal", "corrupt"}

\* TrafficCache.Get: c.mu.RLock()
CacheRLock(w) ==
    /\ tableFate # "fatal"
    /\ step[w] = "get"
    /\ wlocked = {}
    /\ rlocked' = rlocked \cup {w}
    /\ step' = [step EXCEPT ![w] = "getting"]
    /\ UNCHANGED <<overQuota, wlocked, inStates, tableFate, lockRest>>

\* TrafficCache.Get returns (defer c.mu.RUnlock()), with a hit or a miss
CacheRUnlock(w, found) ==
    /\ tableFate # "fatal"
    /\ step[w] = "getting"
    /\ rlocked' = rlocked \ {w}
    /\ step' = [step EXCEPT ![w] = IF found THEN "evaluate" ELSE "set"]
    /\ UNCHANGED <<overQuota, wlocked, inStates, tableFate, lockRest>>

\* TrafficCache.Set: c.mu.Lock()
CacheLock(w) ==
    /\ tableFate # "fatal"
    /\ step[w] = "set"
    /\ rlocked = {}
    /\ wlocked = {}
    /\ wlocked' = {w}
    /\ step' = [step EXCEPT ![w] = "setting"]
    /\ UNCHANGED <<overQuota, rlocked, inStates, tableFate, lockRest>>

\* TrafficCache.Set returns (defer c.mu.Unlock())
CacheUnlock(w) ==
    /\ tableFate # "fatal"
    /\ step[w] = "setting"
    /\ wlocked' = wlocked \ {w}
    /\ step' = [step EXCEPT ![w] = "evaluate"]
    /\ UNCHANGED <<overQuota, rlocked, inStates, tableFate, lockRest>>

\* applyRules, step 4: executeAction when the stat is over the limit
EvaluateStat(w) ==
    /\ tableFate # "fatal"
    /\ step[w] = "evaluate"
    /\ step' = [step EXCEPT ![w] = IF overQuota[w] THEN "record" ELSE "done"]
    /\ UNCHANGED <<overQuota, rlocked, wlocked, inStates, tableFate,
                   lockRest>>

\* VMStateManager.RecordState: the map write starts; no lock is taken by
\* executeAction, RecordVMState or RecordState
RecordStateBegin(w, fate) ==
    /\ tableFate # "fatal"
    /\ step[w] = "record"
    /\ inStates' = inStates \cup {w}
    /\ step' = [step EXCEPT ![w] = "recording"]
    /\ tableFate' = IF inStates = {} THEN tableFate
                    ELSE IF tableFate = "corrupt" /\ fate = "intact"
                    THEN "corrupt"
                    ELSE fate
    /\ UNCHANGED <<overQuota, rlocked, wlocked, lockRest>>

\* the map write is done
RecordStateEnd(w) ==
    /\ tableFate # "fatal"
    /\ step[w] = "recording"
    /\ inStates' = inStates \ {w}
    /\ step' = [step EXCEPT ![w] = "done"]
    /\ UNCHANGED <<overQuota, rlocked, wlocked, tableFate, lockRest>>

LockNext ==
    \E w \in Members :
        \/ CacheRLock(w)
        \/ \E found \in BOOLEAN : CacheRUnlock(w, found)
        \/ CacheLock(w)
        \/ CacheUnlock(w)
        \/ EvaluateStat(w)
        \/ \E fate \in RaceOutcomes : RecordStateBegin(w, fate)
        \/ RecordStateEnd(w)

LockSpec == LockInit /\ [][LockNext]_lockVars

\* ------------------------------------------------------------------------
\* One resource evaluated against a fixed and a creation-anchored rule of the
\* same period and direction, minute by minute
\* ------------------------------------------------------------------------

\* Monitor.calculateFixedPeriodStart
calculateFixedPeriodStart(period, t) ==
    CASE period = "hour" -> Date(Year(t), Month(t), Day(t), Hour(t), 0)
      [] period = "day" -> Date(Year(t), Month(t), Day(t), 0, 0)
      [] period = "month" -> Date(Year(t), Month(t), 1, 0, 0)
      [] OTHER -> t

\* Monitor.calculatePeriodStart: the creation time is not used
calculatePeriodStart(period, creationTime, t) == calculateFixedPeriodStart(period, t)

\* monthsSinceCreation of FileStorage.calculatePeriodStart
MonthsSince(t, creation) ==
    IF Day(t) < Day(creation) \/ (Day(t) = Day(creation) /\ Hour(t) < Hour(creation))
    THEN (Year(t) - Year(creation)) * 12 + (Month(t) - Month(creation)) - 1
    ELSE (Year(t) - Year(creation)) * 12 + (Month(t) - Month(creation))

\* FileStorage.calculatePeriodStart
storageCalculatePeriodStart(period, creationTime, t) ==
    CASE period = "hour" ->
            creationTime + HoursSince(t, creationTime) * MinutesPerHour
      [] period = "day" ->
            AddDate(creationTime, 0, 0, DaysSince(t, creationTime))
      [] period = "month" ->
            Date(Year(AddDate(creationTime, 0, MonthsSince(t, creationTime), 0)),
                 Month(AddDate(creationTime, 0, MonthsSince(t, creationTime), 0)),
                 Day(creationTime), Hour(creationTime), 0)
      [] OTHER -> Date(Year(t), Month(t), Day(t), Hour(t), 0)

\* FileStorage.CalculateTrafficStatsWithDirection at instant t: the stat of
\* the records from the window start to t; over tells whether its total is
\* above the limit of the group's rule
CalculateTrafficStatsWithDirection(period, creationTime, useCreationTime, t, over) ==
    [StartTime |-> IF useCreationTime /\ ~IsZero(creationTime)
                   THEN storageCalculatePeriodStart(period, creationTime, t)
                   ELSE calculateFixedPeriodStart(period, t),
     EndTime |-> t,
     over |-> over]

\* the resource of the two rules
Subject == 101

\* the StatsKey groups of applyRules for the resource
Groups ==
    {[Period |-> "hour", Direction |-> "both", UseCreationTime |-> FALSE],
     [Period |-> "hour", Direction |-> "both", UseCreationTime |-> TRUE]}

\* instants at which the monitor starts: before the end of a fixed hour and
\* before the end of an hour counted from the creation time
StatsInstants == {Date(2024, 3, 10, 8, 58), Date(2024, 3, 10, 9, 28)}

MaxMinutes == 4

StatsInit ==
    /\ \E t \in StatsInstants : EngineIdleAt(t)
    /\ TrafficIdle
    /\ PeriodIdle
    /\ CacheIdle
    /\ MatchIdle
    /\ RulesIdle
    /\ PoolIdle
    /\ LoaderIdle
    /\ RestartIdle
    /\ LockIdle
    /\ StatsIdle
    /\ HistoryIdle
    /\ ReloadIdle

statsRest == <<engineRest, trafficVars, periodVars, lastSet, got, matchVars, rulesVars, poolVars, loaderVars, restartVars, lockVars, historyVars, reloadVars>>

\* the creation time calculateTrafficStatsWithCache works with
knownCreationTime(g, ctOk) == IF g.UseCreationTime /\ ctOk THEN CreationTime[Subject] ELSE ZeroTime

\* startTime of calculateTrafficStatsWithCache
cacheStartTime(g, ctOk) ==
    IF g.UseCreationTime /\ ctOk
    THEN calculatePeriodStart(g.Period, CreationTime[Subject], now)
    ELSE calculateFixedPeriodStart(g.Period, now)

cacheLookup(g, ctOk) == Get(cache, makeKey(Subject, g.Period, g.Direction), cacheStartTime(g, ctOk), now)

\* (stats, nil) of calculateTrafficStatsWithCache
statsFor(g, ctOk, over) ==
    IF cacheLookup(g, ctOk).ok THEN cacheLookup(g, ctOk).Stats
    ELSE CalculateTrafficStatsWithDirection(g.Period, knownCreationTime(g, ctOk), g.UseCreationTime, now, over)

\* applyRules for one group of the resource: calculateTrafficStatsWithCache
\* (ctOk: GetVMCreationTime succeeds; over: the records computed from are
\* above the limit), then executeAction when the stat is over the limit and
\* the resource carries no marker tag; since is the recovery that had run
\* before
EvaluateGroup(g, ctOk, over) ==
    /\ served' = [group |-> g, Stats |-> statsFor(g, ctOk, over),
                  hit |-> cacheLookup(g, ctOk).ok, at |-> now,
                  anchored |-> g.UseCreationTime /\ ctOk, since |-> undone]
    /\ cache' = IF cacheLookup(g, ctOk).ok THEN cache
                ELSE Set(cache, makeKey(Subject, g.Period, g.Direction),
                         cacheStartTime(g, ctOk), statsFor(g, ctOk, over), now)
    /\ pending' = IF statsFor(g, ctOk, over).over /\ pending = None
                  THEN [group |-> g,
                        cause |-> statsFor(g, ctOk, over),
                        since |-> undone,
                        RecoveryTime |->
                            calculateRecoveryTime(g.Period, g.UseCreationTime,
                                knownCreationTime(g, ctOk), now)]
                  ELSE pending
    /\ UNCHANGED <<undone, now, statsRest>>

\* CheckAndRecoverDue: the state is due (now.After(RecoveryTime)), the action
\* is undone, the marker tag and the state are removed
RecoverDue ==
    /\ pending # None
    /\ now > pending.RecoveryTime
    /\ undone' = [group |-> pending.group, at |-> now,
                     RecoveryTime |-> pending.RecoveryTime]
    /\ pending' = None
    /\ UNCHANGED <<served, cache, now, statsRest>>

\* a minute passes
MinutePasses ==
    /\ \E t \in StatsInstants : t <= now /\ now < t + MaxMinutes
    /\ now' = now + 1
    /\ UNCHANGED <<served, pending, undone, cache, statsRest>>

StatsNext ==
    \/ \E g \in Groups, ctOk \in BOOLEAN, over \in BOOLEAN :
           EvaluateGroup(g, ctOk, over)
    \/ RecoverDue
    \/ MinutePasses

StatsSpec == StatsInit /\ [][StatsNext]_<<now, cache, statsVars>>

\* ------------------------------------------------------------------------
\* calculateTraffic and AggregateTrafficByPeriod applied to the same records,
\* sampled a minute apart from the start of the monitor
\* ------------------------------------------------------------------------

\* record.Timestamp of the i-th record
Timestamp(i) == StartTime + (i - 1)

\* the values of the period argument
AggregationPeriods == {"minute", "hour", "day", "month", ""}

\* t.Format(layout) of getKey: the fields the layout of the period prints,
\* TimeFormatHour printing the minute as the literal 00
getKey(t, period) ==
    CASE period = "minute" -> <<Year(t), Month(t), Day(t), Hour(t), Minute(t)>>
      [] period = "hour" -> <<Year(t), Month(t), Day(t), Hour(t), 0>>
      [] period = "month" -> <<Year(t), Month(t)>>
      [] OTHER -> <<Year(t), Month(t), Day(t)>>

\* the number of fields the layout chosen for parsing reads
layoutFields(period) ==
    CASE period \in {"minute", "hour"} -> 5
      [] period = "month" -> 2
      [] OTHER -> 3

\* time.ParseInLocation(format, timeStr, time.Local): <<ok, timestamp>>
ParseInLocation(period, key) ==
    IF Len(key) # layoutFields(period) THEN <<FALSE, ZeroTime>>
    ELSE CASE Len(key) = 5 -> <<TRUE, Date(key[1], key[2], key[3], key[4], key[5])>>
           [] Len(key) = 3 -> <<TRUE, Date(key[1], key[2], key[3], 0, 0)>>
           [] OTHER -> <<TRUE, Date(key[1], key[2], 1, 0, 0)>>

\* variant: a decrease counts as nothing
restartDelta_Zero(current) == 0

\* deltaRX = record.RXBytes after a decrease
restartDelta(current) == current

\* deltaRX / deltaTX of the record at Go index i - 1 (i >= 2)
delta(recs, i, field) ==
    IF recs[i][field] < recs[i - 1][field] THEN restartDelta(recs[i][field])
    ELSE U64Sub(recs[i][field], recs[i - 1][field])

\* groups[key] after the loop: the deltas of the records i .. len with the key
RECURSIVE groupSum(_, _, _, _, _)
groupSum(recs, period, key, field, i) ==
    IF i > Len(recs) THEN 0
    ELSE IF getKey(Timestamp(i), period) = key
    THEN U64Add(delta(recs, i, field), groupSum(recs, period, key, field, i + 1))
    ELSE groupSum(recs, period, key, field, i + 1)

\* the keys of the map groups
groupKeys(recs, period) == {getKey(Timestamp(i), period) : i \in 2 .. Len(recs)}

\* the point appended for a key whose parsing succeeds
AggregatedPoint(recs, period, key) ==
    [Timestamp |-> ParseInLocation(period, key)[2],
     RXBytes |-> groupSum(recs, period, key, "RXBytes", 2),
     TXBytes |-> groupSum(recs, period, key, "TXBytes", 2),
     TotalBytes |-> U64Add(groupSum(recs, period, key, "RXBytes", 2),
                           groupSum(recs, period, key, "TXBytes", 2))]

\* result before sorting, as a set (the keys of one call have distinct
\* timestamps)
parsedPoints(recs, period) ==
    {AggregatedPoint(recs, period, key) :
        key \in {k \in groupKeys(recs, period) : ParseInLocation(period, k)[1]}}

\* sort.Slice(result, Timestamp.Before)
RECURSIVE sortByTimestamp(_)
sortByTimestamp(S) ==
    IF S = {} THEN << >>
    ELSE <<CHOOSE pt \in S : \A other \in S : pt.Timestamp <= other.Timestamp>>
         \o sortByTimestamp(S \ {CHOOSE pt \in S : \A other \in S : pt.Timestamp <= other.Timestamp})

AggregateTrafficByPeriod(recs, period) ==
    IF Len(recs) = 0 THEN << >> ELSE sortByTimestamp(parsedPoints(recs, period))

HistoryInit ==
    /\ EngineIdle
    /\ PeriodIdle
    /\ CacheIdle
    /\ MatchIdle
    /\ RulesIdle
    /\ PoolIdle
    /\ LoaderIdle
    /\ RestartIdle
    /\ LockIdle
    /\ StatsIdle
    /\ HistoryIdle
    /\ ReloadIdle
    /\ records \in SampleSequences \cup WorkedExamples
    /\ stats = NoStats

\* the history figure: AggregateTrafficByPeriod over the same records
HistoryFigure(period) ==
    /\ ~aggregated.done
    /\ aggregated' = [done |-> TRUE, result |-> AggregateTrafficByPeriod(records, period)]
    /\ UNCHANGED <<trafficVars, vars, periodVars, cacheVars, matchVars, rulesVars, poolVars, loaderVars, restartVars, lockVars, statsVars, reloadVars>>

\* the quota figure is GetTrafficStats for both directions
HistoryNext ==
    \/ \E direction \in {"both"} : BuildTrafficStats(direction)
    \/ \E period \in AggregationPeriods : HistoryFigure(period)

HistorySpec == HistoryInit /\ [][HistoryNext]_<<trafficVars, historyVars>>

\* ------------------------------------------------------------------------
\* The configuration file is replaced and reloaded while the monitor runs;
\* each reload starts onConfigReload in a goroutine of its own
\* ------------------------------------------------------------------------

MaxReloads == 2

ReloadInit ==
    /\ EarlierIdle
    /\ LockIdle
    /\ StatsIdle
    /\ HistoryIdle
    /\ ReloadIdle

reloadRest == <<earlierRest, lockVars, statsVars, historyVars>>

\* currentConfig := m.configLoader.GetConfig() in onConfigReload
currentConfig(cb, held) == held

\* the four comparisons of onConfigReload
connectionChanged(current, new) ==
    \/ current.Host # new.Host
    \/ current.Port # new.Port
    \/ current.APITokenID # new.APITokenID
    \/ current.APITokenSecret # new.APITokenSecret

\* Loader.Reload of a modified, valid file: l.config is replaced, then
\* notifyCallbacks starts the callback with the new configuration
ReloadConfig(newConfig) ==
    /\ reloads < MaxReloads
    /\ reloads' = reloads + 1
    /\ loaded' = newConfig
    /\ inflight' = inflight \cup {[n |-> reloads + 1, previous |-> loaded,
                                    newConfig |-> newConfig]}
    /\ UNCHANGED <<pveClient, lastCallback, reloadRest>>

\* Monitor.onConfigReload(newConfig) runs; loginOk: Login succeeds
OnConfigReload(cb, loginOk) ==
    /\ cb \in inflight
    /\ inflight' = inflight \ {cb}
    /\ pveClient' = IF connectionChanged(currentConfig(cb, loaded), cb.newConfig)
                    THEN [settings |-> cb.newConfig, loggedIn |-> loginOk]
                    ELSE pveClient
    /\ lastCallback' = [n |-> cb.n, previous |-> cb.previous,
                        newConfig |-> cb.newConfig, loginOk |-> loginOk,
                        detected |-> connectionChanged(currentConfig(cb, loaded), cb.newConfig),
                        latest |-> cb.n = reloads]
    /\ UNCHANGED <<loaded, reloads, reloadRest>>

ReloadNext ==
    \/ \E newConfig \in PVESettings : ReloadConfig(newConfig)
    \/ \E cb \in inflight, loginOk \in BOOLEAN : OnConfigReload(cb, loginOk)

ReloadSpec == ReloadInit /\ [][ReloadNext]_reloadVars

\* ------------------------------------------------------------------------
\* Properties
\* ------------------------------------------------------------------------

SweepFaults == Bounded(VMs \X RecoverFailSites)

ShutdownFaults == Bounded(ShutdownFailPoints)

EvalFaults == Bounded(EvalFailSites)

MarkerTags == {TagTrafficShutdown, TagTrafficDisconnect, TagTrafficLimited}

\* the restoring call whose error RecoverVM returns
ReturnsRestoreError(st) ==
    \/ st.ActionTaken \in {"shutdown", "stop"} /\ st.OriginalStatus = "running"
    \/ st.ActionTaken = "disconnect"

\* executeAction gets past the marker-tag guard
ActionStepReached(vmid, i, fail) ==
    ~(/\ actionTagOf(Rules[i]) # NoTag
      /\ "GetVMTags" \notin fail
      /\ actionTagOf(Rules[i]) \in vmTags[vmid])

\* a tick that evaluates rule i as violated for resource vmid (the leading
\* conjuncts follow from EvaluateRule and only order the evaluation)
ViolatedTick(vmid, i, ct, fail) ==
    /\ handler' = "tick"
    /\ VMMatchesRule([VMID |-> vmid, Tags |-> vmTags[vmid]], Rules[i])
    /\ \A u \in VMs \ {vmid} :
          vmTags'[u] = vmTags[u] /\ vmStatus'[u] = vmStatus[u]
    /\ "AutoAdd" \notin fail => RuleTag(Rules[i].Name) \in vmTags'[vmid]
    /\ EvaluateRule(vmid, i, TRUE, ct, fail)

SweepStep(F) == handler' = "sweep" /\ Sweep(FailOf(F))

SignalStep(F) == handler' = "signal" /\ ShutdownWith(F)

C2_EnforcedImpliesRecorded ==
    \A v \in VMs : applied[v] # {} => v \in DOMAIN States

\* C3: the recovery time stored by RecordVMState equals GetNextPeriodStart of
\* the period calculator for the rule's kind and anchor at the same instant.
C3_RecoveryTimeIsNextPeriodStart ==
    [][\A vmid \in VMs, i \in DOMAIN Rules, fail \in EvalFaults :
         \A ct \in {ZeroTime, CreationTime[vmid]} :
            (/\ ActionStepReached(vmid, i, fail)
             /\ "GetVMStatus" \notin fail
             /\ ViolatedTick(vmid, i, ct, fail))
            => States'[vmid].RecoveryTime =
                  GetNextPeriodStart(
                      NewCalculator(Rules[i].Period, ct,
                                    Rules[i].UseCreationTime), now)]_vars

\* C4: once the action-specific marker tag is present, executeAction invokes
\* no enforcement primitive, writes no log and records no new state.
C4_MarkerTagStopsEnforcement ==
    [][\A vmid \in VMs, i \in DOMAIN Rules, fail \in EvalFaults :
         \A ct \in {ZeroTime, CreationTime[vmid]} :
            (/\ actionTagOf(Rules[i]) \in vmTags[vmid]
             /\ ViolatedTick(vmid, i, ct, fail))
            => /\ actionLogs' = << >>
               /\ States' = States
               /\ vmStatus' = vmStatus
               /\ vmRate' = vmRate
               /\ vmLinkDown' = vmLinkDown]_vars

\* C5: after the shutdown path no EnforcementState is outstanding, no
\* resource carries a traffic- tag and no enforcement effect is in force.
C5_NothingEnforcedAfterExit ==
    pc = "exited" =>
        /\ DOMAIN States = {}
        /\ \A v \in VMs :
              /\ applied[v] = {}
              /\ \A tag \in vmTags[v] : ~HasTrafficPrefix(tag)

\* C6: when the control-plane call that undoes the action fails (any action
\* kind), the sweep leaves the resource's EnforcementState unchanged.
C6_FailedRestoreKeepsState ==
    [][\A F \in SweepFaults : SweepStep(F) =>
         \A v \in GetRecoveryDueStates(States, now) :
            (/\ <<v, "Restore">> \in F
             /\ \/ ReturnsRestoreError(States[v])
                \/ States[v].ActionTaken = "rate_limit")
            => v \in DOMAIN States' /\ States'[v] = States[v]]_vars

\* the resources RecoverVM was called for by the last sweep / shutdown: the
\* ones it removed, and the ones it left (a sweep leaves a due state, the
\* shutdown path any state, only when the restoring call failed)
Attempted ==
    CASE handler = "sweep" ->
            DOMAIN recovered \cup GetRecoveryDueStates(States, now)
      [] handler = "signal" -> DOMAIN recovered \cup DOMAIN States
      [] OTHER -> {}

\* the state RecoverVM found for an attempted resource
FoundState(v) == IF v \in DOMAIN recovered THEN recovered[v] ELSE States[v]

Issued(v, call) == \E ok \in BOOLEAN : <<v, call, ok>> \in calls

\* C7: restoring a shutdown / stop state issues a start call exactly when the
\* recorded original status is running; restoring a disconnect state issues
\* a reconnect; no other restoration starts or reconnects a resource, and a
\* start that took effect leaves the resource running.
C7_RestoreByOriginalStatus ==
    handler \in {"sweep", "signal"} =>
        \A v \in VMs :
            /\ Issued(v, "StartVM")
               <=> /\ v \in Attempted
                   /\ FoundState(v).ActionTaken \in {"shutdown", "stop"}
                   /\ FoundState(v).OriginalStatus = "running"
            /\ Issued(v, "ConnectNetwork")
               <=> /\ v \in Attempted
                   /\ FoundState(v).ActionTaken = "disconnect"
            /\ <<v, "StartVM", TRUE>> \in calls => vmStatus[v] = "running"
            /\ <<v, "ConnectNetwork", TRUE>> \in calls => ~vmLinkDown[v]

C7_Witness ==
    \E v, u \in DOMAIN recovered :
        /\ recovered[v].ActionTaken \in {"shutdown", "stop"}
        /\ recovered[v].OriginalStatus = "running"
        /\ <<v, "StartVM", TRUE>> \in calls
        /\ vmStatus[v] = "running"
        /\ recovered[u].ActionTaken \in {"shutdown", "stop"}
        /\ recovered[u].OriginalStatus = "stopped"
        /\ ~Issued(u, "StartVM")
        /\ vmStatus[u] = "stopped"

\* C8: when a rate-limit state has been restored and the restoring call took
\* effect, the resource has the rate limit it had before the enforcement.
C8_RateLimitRoundTrip ==
    \A v \in DOMAIN recovered :
        (recovered[v].ActionTaken = "rate_limit"
         /\ "rate_limit" \notin applied[v])
        => vmRate[v] = rateBefore[v]

\* C9: a resource whose EnforcementState RecoverVM has just deleted carries
\* no tag starting with traffic-.
C9_NoTrafficTagAfterRecover ==
    \A v \in DOMAIN recovered : \A tag \in vmTags[v] : ~HasTrafficPrefix(tag)

EnforcementCalls ==
    {"StopVM", "ShutdownVM", "DisconnectNetwork", "SetNetworkRateLimit"}

C11_StateNotReplaced ==
    [][\A v \in DOMAIN States \cap DOMAIN States' :
          /\ States'[v].OriginalStatus = States[v].OriginalStatus
          /\ States'[v].ActionTaken = States[v].ActionTaken
          /\ States'[v].RuleName = States[v].RuleName
          /\ States'[v].RecoveryTime = States[v].RecoveryTime]_vars

\* ------------------------------------------------------------------------
\* Properties of calculateTraffic (TrafficSpec)
\* ------------------------------------------------------------------------

\* the counter sequence of one direction
Column(recs, field) == [i \in 1 .. Len(recs) |-> recs[i][field]]

\* recs with the counters of one direction replaced
WithColumn(recs, field, column) ==
    [i \in 1 .. Len(recs) |-> [recs[i] EXCEPT ![field] = column[i]]]

\* the positions at which a counter sequence decreases
Resets(s) == {i \in 2 .. Len(s) : s[i] < s[i - 1]}

\* the last position of the reset-delimited segment that starts at i
SegmentEnd(s, i) ==
    LET later == {r \in Resets(s) : r > i}
    IN  IF later = {} THEN Len(s)
        ELSE (CHOOSE r \in later : \A q \in later : r <= q) - 1

RECURSIVE SumOfSegmentEnds(_, _)
SumOfSegmentEnds(s, starts) ==
    IF starts = {} THEN 0
    ELSE LET r == CHOOSE x \in starts : TRUE
         IN  s[SegmentEnd(s, r)] + SumOfSegmentEnds(s, starts \ {r})

\* the first segment counts from the first sample, every segment after a
\* reset from 0
SegmentSum(s) ==
    IF Len(s) < 2 THEN 0
    ELSE (s[SegmentEnd(s, 1)] - s[1]) + SumOfSegmentEnds(s, Resets(s))

NonDecreasing(s) == Resets(s) = {}

WorkedExample2 ==
    Counters(<<0, 100, 200, 300, 50, 150>>, <<0, 50, 120, 180, 30, 100>>)

C14_FirstSampleDiscarded ==
    (stats # NoStats /\ Len(records) >= 2)
    => /\ \A field \in {"RXBytes", "TXBytes"} :
             LET s == Column(records, field)
                 fromZero == WithColumn(records, field, [s EXCEPT ![1] = 0])
                 total == IF field = "RXBytes" THEN stats.RXBytes
                          ELSE stats.TXBytes
                 asIf == IF field = "RXBytes" THEN calculateTraffic(fromZero).RX
                         ELSE calculateTraffic(fromZero).TX
             IN  s[2] < s[1] => total = asIf
       /\ Column(records, "RXBytes") = <<300, 50, 150>> => stats.RXBytes = 150

C14_Witness ==
    /\ stats # NoStats
    /\ Column(records, "RXBytes") = <<300, 50, 150>>
    /\ stats.RXBytes = 150

\* C15: for zero samples or one sample the totals are 0 whatever the counter
\* values, and for a direction whose counter never decreases the total is the
\* last sample's value minus the first sample's value.
C15_ShortAndMonotoneWindows ==
    stats # NoStats
    => /\ Len(records) <= 1
          => stats.RXBytes = 0 /\ stats.TXBytes = 0 /\ stats.TotalBytes = 0
       /\ (Len(records) >= 1 /\ NonDecreasing(Column(records, "RXBytes")))
          => stats.RXBytes
                = records[Len(records)].RXBytes - records[1].RXBytes
       /\ (Len(records) >= 1 /\ NonDecreasing(Column(records, "TXBytes")))
          => stats.TXBytes
                = records[Len(records)].TXBytes - records[1].TXBytes

C15_Witness ==
    /\ stats # NoStats
    /\ Len(records) = 1
    /\ records[1].RXBytes > 0
    /\ records[1].TXBytes > 0
    /\ stats.TotalBytes = 0

\* C16: the received total depends only on the received counters and the sent
\* total only on the sent counters: each equals the total computed for the
\* same counters of that direction next to an all-zero other direction, so
\* any two sequences that agree in one direction agree in its total.
C16_DirectionsIndependent ==
    stats # NoStats
    => LET zeros == [i \in 1 .. Len(records) |-> 0]
       IN  /\ stats.RXBytes
                 = calculateTraffic(WithColumn(records, "TXBytes", zeros)).RX
           /\ stats.TXBytes
                 = calculateTraffic(WithColumn(records, "RXBytes", zeros)).TX

C16_Witness ==
    /\ stats # NoStats
    /\ Len(records) = 4
    /\ Resets(Column(records, "TXBytes")) = {2}
    /\ Resets(Column(records, "RXBytes")) = {4}
    /\ records[1].RXBytes > 0
    /\ stats.RXBytes = records[3].RXBytes - records[1].RXBytes
                          + records[4].RXBytes

\* C37: a resource carrying a marker tag of the engine has an
\* EnforcementState in the state table, so that a recovery is scheduled
\* whenever the tag suppresses enforcement.
C37_MarkerTagImpliesState ==
    \A v \in VMs : vmTags[v] \cap MarkerTags # {} => v \in DOMAIN States

\* an enforced resource with its marker tag and its recorded state
C37_Witness ==
    \E v \in VMs :
        /\ vmTags[v] \cap MarkerTags # {}
        /\ v \in DOMAIN States
        /\ applied[v] # {}

\* C38: no unsigned subtraction of calculateTraffic wraps around: the segment
\* base is never greater than the value it is subtracted from, in either
\* direction, also when only one direction resets at the first pair.
C38_NoSubtractionWraps ==
    stats # NoStats => ~subtractionWraps(records)

\* a stat built from records in which only the RX counter resets at the first
\* pair and the TX counter resets later
C38_Witness ==
    /\ stats # NoStats
    /\ Len(records) >= 3
    /\ firstRestart(records, "RXBytes")
    /\ ~firstRestart(records, "TXBytes")
    /\ records[1].TXBytes > 0
    /\ records[3].TXBytes < records[2].TXBytes

\* the sum of a field over the points
RECURSIVE SumOfPoints(_, _)
SumOfPoints(pts, field) ==
    IF pts = << >> THEN 0
    ELSE U64Add(Head(pts)[field], SumOfPoints(Tail(pts), field))

ChangeNotified ==
    /\ lastCallback # NoCallback
    /\ lastCallback.latest
    /\ lastCallback.loginOk
    /\ connectionChanged(lastCallback.previous, lastCallback.newConfig)

\* C40: when a reload changes host, port, token id or token secret,
\* onConfigReload detects the difference and replaces the control-plane
\* client with one logged in with the new settings.
C40_ClientFollowsReload ==
    ChangeNotified
    => (/\ lastCallback.detected
        /\ pveClient = [settings |-> lastCallback.newConfig, loggedIn |-> TRUE])

\* the callback of a reload that changed the host has run
C40_Witness ==
    /\ ChangeNotified
    /\ lastCallback.previous.Host # lastCallback.newConfig.Host
    /\ inflight = {}

\* ------------------------------------------------------------------------
\* Properties of period.Calculator (PeriodSpec)
\* ------------------------------------------------------------------------

\* C17: the window computed at the end instant of a window starts at that
\* instant (consecutive windows neither overlap nor leave a gap).
C17_WindowsContiguous ==
    (window # NoWindow /\ lastEnd # ZeroTime /\ now = lastEnd)
    => window.start = lastEnd

Anchored(c) == c.useCreationTime /\ ~IsZero(c.creationTime)

\* the anchor's day, hour and minute in month m of year y, on the month's last
\* day when the month is shorter than the anchor's day
ClampedAnchor(c, y, m) ==
    LET day == IF Day(c.creationTime) <= DaysIn(y, m)
               THEN Day(c.creationTime) ELSE DaysIn(y, m)
    IN  Date(y, m, day, Hour(c.creationTime), Minute(c.creationTime))

\* C18: for a creation-anchored month window whose anchor day does not exist
\* in the target month (anchor day 31, February 2025), the window start is
\* the last day of that month at the anchor's hour and minute.
C18_AnchorDayClamped ==
    (/\ window # NoWindow
     /\ calc.periodType = "month"
     /\ Anchored(calc)
     /\ Day(calc.creationTime) > DaysIn(2025, 2)
     /\ ClampedAnchor(calc, 2025, 2) <= now
     /\ now < ClampedAnchor(calc, 2025, 3))
    => window.start = ClampedAnchor(calc, 2025, 2)

\* c.IsInCurrentPeriod(t), called at the instant clock
IsInCurrentPeriod(c, t, clock) == GetPeriodRange(c, clock).start <= t /\ t < GetPeriodRange(c, clock).end

\* C34: for every period kind and anchoring mode the window computed at an
\* instant contains that instant: start <= now < end, and
\* IsInCurrentPeriod(now) is true.
C34_WindowContainsNow ==
    window # NoWindow
    => (/\ window.start <= now
        /\ now < window.end
        /\ IsInCurrentPeriod(calc, now, now))

\* a creation-anchored month window asked for in the anchor's day and hour
\* before the anchor's minute
C34_Witness ==
    /\ window # NoWindow
    /\ calc.periodType = "month"
    /\ Anchored(calc)
    /\ Day(now) = Day(calc.creationTime)
    /\ Hour(now) = Hour(calc.creationTime)
    /\ Minute(now) < Minute(calc.creationTime)

\* ------------------------------------------------------------------------
\* Properties of cache.TrafficCache (CacheSpec)
\* ------------------------------------------------------------------------

\* the Set that a Get of got's key and window start would have to answer from
SetBefore == lastSet[got.key]

\* C19: a Get with the key and window start of the last Set on that key, no
\* Clear or Invalidate in between and at most TTL after it, is a hit and
\* returns the stat that was set.
C19_SetThenGetHits ==
    (/\ got # NoGet
     /\ SetBefore # NoEntry
     /\ SetBefore.PeriodStart = got.periodStart
     /\ now - SetBefore.LastUpdate <= TTL)
    => (got.ok /\ got.Stats = SetBefore.Stats)

\* a hit carrying the second stat set, exactly TTL after its Set
C19_Witness ==
    /\ got # NoGet
    /\ got.ok
    /\ got.Stats = "statsB"
    /\ now - SetBefore.LastUpdate = TTL

\* C20: a Get is a hit only if the entry's window start is the caller's and
\* the entry is not older than TTL.
C20_HitOnlyIfSameWindowAndFresh ==
    (got # NoGet /\ got.ok)
    => (/\ cache[got.key] # NoEntry
        /\ cache[got.key].PeriodStart = got.periodStart
        /\ now - cache[got.key].LastUpdate <= TTL
        /\ got.Stats = cache[got.key].Stats)

\* a miss after the window rolled over, the entry being still fresh
C20_Witness ==
    /\ got # NoGet
    /\ ~got.ok
    /\ cache[got.key] # NoEntry
    /\ cache[got.key].PeriodStart # got.periodStart
    /\ now - cache[got.key].LastUpdate < TTL

\* ------------------------------------------------------------------------
\* Properties of calculateTrafficStatsWithCache (StatsSpec)
\* ------------------------------------------------------------------------

\* start of the window of a rule group at instant t, as the storage computes it
OwnWindowStart(g, anchored, t) ==
    IF anchored THEN storageCalculatePeriodStart(g.Period, CreationTime[Subject], t)
    ELSE calculateFixedPeriodStart(g.Period, t)

\* C35: a stat served to a rule group was computed for the window of that
\* group (fixed or creation-anchored), also when it comes from the cache.
C35_ServedStatOfOwnWindow ==
    served # NoServed
    => served.Stats.StartTime = OwnWindowStart(served.group, served.anchored, served.at)

\* the creation-anchored group is served right after the fixed group of the
\* same period and direction was, at the same instant
C35_Witness ==
    /\ served # NoServed
    /\ served.anchored
    /\ served.at = now
    /\ cache[makeKey(Subject, served.group.Period, served.group.Direction)] # NoEntry
    /\ cache[makeKey(Subject, served.group.Period, served.group.Direction)].LastUpdate = now
    /\ cache[makeKey(Subject, served.group.Period, served.group.Direction)].Stats.StartTime = calculateFixedPeriodStart(served.group.Period, now)

\* the evaluation of the recovered rule's group after its recovery
AfterRecovery ==
    /\ undone # None
    /\ served # NoServed
    /\ served.group = undone.group
    /\ served.since = undone

\* C36: after the recovery of a resource at the end of a window, its rule is
\* evaluated against a stat computed after that window's end, and it is not
\* enforced again by a stat of the window that ended.
C36_RecoveredEvaluatedOnNewWindow ==
    /\ AfterRecovery => served.Stats.EndTime >= undone.RecoveryTime
    /\ (undone # None /\ pending # None /\ pending.group = undone.group
        /\ pending.since = undone)
       => pending.cause.EndTime >= undone.RecoveryTime

\* the creation-anchored rule was enforced, recovered at the end of its
\* window, and evaluated again
C36_Witness ==
    /\ AfterRecovery
    /\ undone.group.UseCreationTime
    /\ undone.RecoveryTime = Date(2024, 3, 10, 9, 30)

\* ------------------------------------------------------------------------
\* Properties of pve.VMMatchesRule (MatchSpec)
\* ------------------------------------------------------------------------

\* the pairs of a letter and its other case
CasePairs == {<<"a", "A">>, <<"A", "a">>, <<"b", "B">>, <<"B", "b">>}

\* two tags that differ at most in the case of their letters
SameIgnoringCase(s, t) ==
    /\ Len(s) = Len(t)
    /\ \A i \in 1 .. Len(s) : s[i] = t[i] \/ <<s[i], t[i]>> \in CasePairs

SharesTag(v, r) ==
    \E s \in v.Tags : \E t \in r.VMTags : SameIgnoringCase(s, t)

\* C22: VMMatchesRule is true exactly when the resource is not denied, the id
\* allow-list is empty or holds the resource, and the tag allow-list is empty
\* or shares a tag with the resource ignoring case; a denied resource never
\* matches, and with both allow-lists empty every resource not denied does.
C22_MatchesExactly ==
    matched # NotAsked =>
        /\ matched[1] = (/\ vm.VMID \notin rule.ExcludeVMIDs
                         /\ (rule.VMIDs = {} \/ vm.VMID \in rule.VMIDs)
                         /\ (rule.VMTags = {} \/ SharesTag(vm, rule)))
        /\ (vm.VMID \in rule.ExcludeVMIDs => matched[1] = FALSE)
        /\ (rule.VMIDs = {} /\ rule.VMTags = {}
              => matched[1] = (vm.VMID \notin rule.ExcludeVMIDs))

\* a match through a tag that differs from the rule's tag only in case, for
\* a resource the id allow-list holds
C22_Witness ==
    /\ matched = <<TRUE>>
    /\ vm.VMID \in rule.VMIDs
    /\ rule.VMTags # {}
    /\ vm.Tags \cap rule.VMTags = {}

\* ------------------------------------------------------------------------
\* Properties of Monitor.applyRules (RulesSpec)
\* ------------------------------------------------------------------------

\* the groups of the enabled rules the subject matches
GroupsOf(vmid) ==
    {StatsKey(GroupRules[i]) :
        i \in {j \in DOMAIN GroupRules :
                 /\ GroupRules[j].Enabled
                 /\ VMMatchesRule([VMID |-> vmid, Tags |-> {}], GroupRules[j])}}

CallsFor(key) == {n \in DOMAIN computations : computations[n].key = key}

RuleNamed(name) ==
    CHOOSE r \in {GroupRules[i] : i \in DOMAIN GroupRules} : r.Name = name

\* C21: in one run of applyRules, the matched enabled rules of one (period,
\* effective direction, anchoring) group cause exactly one call of
\* calculateTrafficStatsWithCache, and each rule of the group is evaluated
\* against the stat of that call.
C21_OneComputationPerGroup ==
    subject # 0 =>
        \A key \in GroupsOf(subject) :
            /\ Cardinality(CallsFor(key)) = 1
            /\ \A n \in CallsFor(key) : \A e \in DOMAIN evaluations :
                   StatsKey(RuleNamed(evaluations[e].rule)) = key
                   => evaluations[e].TotalGB = computations[n].TotalGB

\* C23: a matched rule with a stat is handed to executeAction exactly when
\* the stat's total is strictly greater than the rule's limit; at a total
\* equal to the limit nothing is enforced for the rule and its over-limit tag
\* is not set.
C23_StrictlyGreater ==
    \A e \in DOMAIN evaluations :
        LET ev == evaluations[e]
            limit == RuleNamed(ev.rule).LimitGB
        IN  /\ ev.executed = (ev.TotalGB > limit)
            /\ ev.TotalGB <= limit =>
                  /\ \A l \in DOMAIN actionLogs :
                         actionLogs[l].RuleName # ev.rule
                  /\ RuleTag(ev.rule) \notin ev.tagsAfter \ ev.tagsBefore

\* one stat of a group at the limit of one rule (not enforced) and over the
\* limit of the other (enforced)
C23_Witness ==
    \E e, f \in DOMAIN evaluations :
        /\ evaluations[e].rule = "capA"
        /\ evaluations[e].TotalGB = LimitGBs.capA
        /\ ~evaluations[e].executed
        /\ evaluations[f].rule = "capB"
        /\ evaluations[f].executed
        /\ \E l \in DOMAIN actionLogs : actionLogs[l].RuleName = "capB"

\* the tags of the subject after one more AutoTagByTrafficWithRule of the
\* evaluation's rule with the same stat, every call succeeding
TaggedAgain(ev) ==
    AutoTagByTrafficWithRule([tags |-> [v \in VMs |-> ev.tagsAfter]], subject,
                             ev.TotalGB > RuleNamed(ev.rule).LimitGB,
                             ev.rule, {}).tags[subject]

TagMaintained(ev) ==
    /\ (RuleTag(ev.rule) \in ev.tagsAfter)
         = (ev.TotalGB > RuleNamed(ev.rule).LimitGB)
    /\ ev.tagsAfter \ {RuleTag(ev.rule)} = ev.tagsBefore \ {RuleTag(ev.rule)}
    /\ TaggedAgain(ev) = ev.tagsAfter

TagCallsSucceeded == failing \cap {"AutoRemove", "AutoAdd"} = {}

Settled == mainPc \notin {"send", "wait"}

Busy == {w \in Workers : workerPc[w] \in Processing}

\* C25: collectAndProcess returns only after every worker has finished and
\* every listed resource was processed exactly once, and at no time are two
\* ticks in progress.
C25_TickDrainsAndNeverOverlaps ==
    /\ collections - completed \in {0, 1}
    /\ (collections - completed = 1) = ~Settled
    /\ \A v \in FleetSet : processed[v] <= 1
    /\ Settled =>
          /\ \A w \in Workers : workerPc[w] \in {"none", "exited"}
          /\ vmChan = << >>
          /\ \A i \in DOMAIN fetched : processed[fetched[i]] = 1

\* the second tick has returned
C25_Witness ==
    /\ Settled
    /\ completed = MaxCollections
    /\ fetched = Fleet
    /\ \A v \in FleetSet : outcome[v] = "done"

\* C26: at every instant at most maxWorkers resources are being processed,
\* however many resources the fleet has.
C26_BoundedConcurrency ==
    /\ Cardinality(Busy) <= maxWorkers
    /\ Cardinality({workerVM[w] : w \in Busy}) <= maxWorkers

\* every worker is busy while a further resource waits in vmChan
C26_Witness ==
    /\ Len(Fleet) > maxWorkers
    /\ Cardinality(Busy) = maxWorkers
    /\ vmChan # << >>

\* C27: a failing call while one resource is processed keeps no other resource
\* of the tick from being fully processed, and does not end the main loop:
\* later ticks and sweeps still run.
C27_FailureIsolated ==
    /\ Settled =>
          \A i \in DOMAIN fetched :
              /\ outcome[fetched[i]] # "none"
              /\ fetched[i] \notin faulted => outcome[fetched[i]] = "done"
    /\ mainPc \in ShutdownSteps \cup {"exited"} => handled

\* after calls failed in the first tick, a sweep and a second tick without
\* failures have run and processed every resource
C27_Witness ==
    /\ faults = MaxFaults
    /\ completed = MaxCollections
    /\ sweeps = MaxSweeps
    /\ faulted = {}
    /\ mainPc = "select"
    /\ \A v \in FleetSet : outcome[v] = "done"

\* C28: once the signal is handled no tick or sweep starts; RecoverAll runs
\* after that, and the storage is closed only after RecoverAll has returned.
C28_ShutdownOrder ==
    /\ lateStarts = 0
    /\ handled => Settled /\ mainPc # "select"
    /\ shutdownDone # << >> => handled
    /\ \A i \in DOMAIN shutdownDone :
          shutdownDone[i] = "close"
          => \E j \in 1 .. i - 1 : shutdownDone[j] = "recoverAll"
    /\ mainPc = "exited" => shutdownDone[Len(shutdownDone)] = "close"

\* the process has exited through the sigChan path after a tick and a sweep
C28_Witness ==
    /\ mainPc = "exited"
    /\ completed >= 1
    /\ sweeps >= 1
    /\ shutdownDone = <<"cleanup", "recoverAll", "close">>

\* C32: while a tick is processing resources the main loop can take the
\* recoveryTicker case, and while a sweep runs it can take the ticker case.
C32_SweepAndTickIndependent ==
    /\ (~Settled /\ sweeps < MaxSweeps) => ENABLED RecoverySweep
    /\ (mainPc = "sweep" /\ collections < MaxCollections) => ENABLED StartTick

\* workers are processing resources of a tick and a sweep is still to run
C32_Witness ==
    /\ mainPc = "wait"
    /\ Busy # {}
    /\ sweeps < MaxSweeps
    /\ ~handled

\* C33: after GetVMStatus or SaveTrafficRecord failed for a resource, the
\* rules are not applied to it in that tick (so no tag, state or action), and
\* the next tick lists the resource again and processes it from the first step.
C33_FailedPipelineStops ==
    /\ \A w \in Workers :
          workerPc[w] = "rules"
          => (workerVM[w] \notin faulted /\ outcome[workerVM[w]] = "none")
    /\ \A v \in FleetSet :
          outcome[v] = "failed"
          => (v \in faulted /\ \A w \in Workers : workerVM[w] # v)
    /\ ~Settled => \A v \in FleetSet : \E i \in DOMAIN fetched : fetched[i] = v
    /\ \A w \in Workers :
          (workerPc[w] \in Processing /\ workerPc[w] # ProcessSteps[1])
          => (processed[workerVM[w]] = 1 /\ outcome[workerVM[w]] = "none")

\* a tick has returned in which the pipeline of one resource stopped at a
\* failed call while another resource went through its rules
C33_Witness ==
    /\ mainPc = "select"
    /\ completed >= 1
    /\ \E v \in FleetSet : outcome[v] = "failed"
    /\ \E v \in FleetSet : outcome[v] = "done" /\ v \notin faulted

\* ------------------------------------------------------------------------
\* Properties of config.Loader (LoaderSpec)
\* ------------------------------------------------------------------------

\* a rule of the file with an unknown period kind, an unknown action, a limit
\* that is missing or not greater than 0, or rate_limit without a positive
\* rate
Unacceptable(r) ==
    \/ r.Period \notin {"hour", "day", "month"}
    \/ r.Action \notin {"shutdown", "stop", "disconnect", "rate_limit"}
    \/ ~r.limit_gb.present
    \/ r.limit_gb.value <= 0
    \/ (r.Action = "rate_limit" /\ r.RateLimitMB <= 0)

HasUnacceptableRule(f) == \E i \in DOMAIN f.Rules : Unacceptable(f.Rules[i])

\* C29: a Reload that reads a configuration with such a rule returns an
\* error, leaves the configuration in effect unchanged and invokes no
\* callback; no such rule is ever in the configuration in effect.
C29_InvalidConfigRejected ==
    /\ (reloadResult \in {"ok", "error"} /\ HasUnacceptableRule(file))
         => /\ reloadResult = "error"
            /\ config = configBefore
            /\ Len(notifications) = notifiedBefore
    /\ \A i \in DOMAIN config.Rules :
          /\ config.Rules[i].Period \in {"hour", "day", "month"}
          /\ config.Rules[i].Action \in {"shutdown", "stop", "disconnect",
                                         "rate_limit"}
          /\ config.Rules[i].LimitGB > 0
          /\ config.Rules[i].Action = "rate_limit"
               => config.Rules[i].RateLimitMB > 0

\* a configuration is in effect and was announced, and a later file whose
\* second rule has no limit was rejected
C29_Witness ==
    /\ reloadResult = "error"
    /\ config # NoConfig
    /\ notifications # << >>
    /\ Len(file.Rules) = 2
    /\ ~file.Rules[2].limit_gb.present
    /\ file.baseOk

\* ------------------------------------------------------------------------
\* Properties of the restarted monitor (RestartSpec)
\* ------------------------------------------------------------------------

\* the resources whose persisted state still asks for recovery
AwaitingRecovery == {v \in VMs : store[v].NeedsRecovery}

\* C30: in a process that was started again, every persisted state that
\* still asks for recovery is in the state table, and after a recovery sweep
\* none of them is left whose recovery time has passed.
C30_PersistedStateRebuilt ==
    (restarts > 0 /\ pc = "running")
       => /\ \A v \in AwaitingRecovery :
                v \in DOMAIN States /\ States[v] = store[v]
          /\ handler = "sweep"
               => \A v \in AwaitingRecovery : ~(now > store[v].RecoveryTime)

\* the state of a stopped resource was persisted, the process was started
\* again, the recovery time has passed and a sweep has run
C30_Witness ==
    /\ restarts > 0
    /\ handler = "sweep"
    /\ \E v \in AwaitingRecovery :
          /\ now > store[v].RecoveryTime
          /\ store[v].ActionTaken \in {"shutdown", "stop"}
          /\ store[v].OriginalStatus = "running"
          /\ vmStatus[v] = "stopped"
          /\ v \notin DOMAIN States

\* ------------------------------------------------------------------------
\* Properties of the shared structures (LockSpec)
\* ------------------------------------------------------------------------

\* C31: the cache is written by one worker at a time and never while it is
\* read, and the state table is written by one worker at a time.
C31_SharedAccessExclusive ==
    /\ Cardinality(wlocked) <= 1
    /\ wlocked # {} => rlocked = {}
    /\ Cardinality(inStates) <= 1

\* two workers of one tick are inside the map write of RecordState together
C31_Witness ==
    /\ Cardinality(inStates) >= 2
    /\ \A w \in inStates : overQuota[w] /\ step[w] = "recording"

====
